---- MODULE Spec2Model ----
(***************************************************************************)
(* State-machine model of the TFL dashboard (src/dashboard_acc.py).        *)
(*                                                                         *)
(* The dashboard only reads a SQLite database; the tables are the state,   *)
(* the rows an external importer / standings calculator writes are the     *)
(* environment's actions, and every data-access method of ACCWebDashboard  *)
(* is an action that evaluates its SQL over the tables and leaves what it  *)
(* returns in a result variable.  Where SQL leaves a choice open (a bare   *)
(* column of a GROUP BY, LIMIT 1 without ORDER BY, the order of rows that  *)
(* tie on every ORDER BY key) the action chooses nondeterministically.     *)
(***************************************************************************)
EXTENDS Integers, Sequences, FiniteSets, Bags, TLC

VARIABLES
    db_ok,                  \* the SQLite file can be opened and queried
    laps,                   \* table laps: a bag of rows (the same lap time can be set twice)
    view,                   \* what the last track / driver query returned
    competition_standings,  \* table competition_standings: a set of rows
    results,                \* what get_competition_results returned last
    call_log,               \* what a failed and what an empty query returned last
    championship_standings, \* table championship_standings: a set of rows
    manual_penalties,       \* table manual_penalties: a bag of rows
    total_rounds,           \* championships.total_rounds of championship 1
    competitions,           \* drop_worst_results of the points systems of its competitions
    standings,              \* what get_championship_standings returned last
    page,                   \* what show_championships_report rendered last
    league_standings,       \* table league_standings: a set of rows
    league_page,            \* what show_leagues_report rendered last
    session_results,        \* table session_results: a set of rows
    sessions_view,          \* what the last session query or session page showed
    catalog,                \* the rows of leagues, championships, competitions and
                            \* drivers that the selectors list
    selector,               \* what the last selectbox offered and opened
    connections             \* connections the last session or catalog query had
                            \* opened and not closed when it returned

lapVars == <<laps, view>>
compVars == <<competition_standings, results, call_log>>
champVars == <<championship_standings, manual_penalties, total_rounds, competitions,
               standings, page>>
leagueVars == <<league_standings, league_page>>
reportVars == <<session_results, sessions_view, catalog, selector, connections>>
vars == <<db_ok, lapVars, compVars, champVars, leagueVars, reportVars>>

----------------------------------------------------------------------------
(* SQL values *)

\* SQL NULL / Python None; a nullable column holds NULL or Some(v).
NULL == <<>>
Some(v) == <<v>>
Val(x) == x[1]

Min(S) == CHOOSE x \in S : \A y \in S : x <= y
Max(S) == CHOOSE x \in S : \A y \in S : x >= y

\* The orders in which a SELECT may return the rows of bag B under ORDER BY:
\* every arrangement in which Before(a, b) never puts b strictly ahead of a.
OrderedBy(B, Before(_, _)) ==
    LET n == BagCardinality(B)
    IN  { s \in [1..n -> BagToSet(B)] :
            /\ \A r \in BagToSet(B) : Cardinality({i \in 1..n : s[i] = r}) = CopiesIn(r, B)
            /\ \A i, j \in 1..n : i < j => ~Before(s[j], s[i]) }

\* safe_sql_query: the rows of the query, or an empty DataFrame when the
\* query raised.
safe_sql_query(rows) == IF db_ok THEN rows ELSE <<>>

----------------------------------------------------------------------------
(* Rendered cells *)

\* A rendered cell: the text "-", a medal, or a number printed with a sign
\* ("", "-" or "+") and dec decimals.  Two cells are equal exactly when the
\* strings they stand for are.
Dash == [kind |-> "-", sign |-> "", abs |-> 0, dec |-> 0]
Medal(n) == [kind |-> "medal", sign |-> "", abs |-> n, dec |-> 0]
Num(sign, a, dec) == [kind |-> "num", sign |-> sign, abs |-> a, dec |-> dec]
Abs(x) == IF x < 0 THEN -x ELSE x
SignOf(x) == IF x < 0 THEN "-" ELSE ""

\* f"{x:.1f}", f"-{x:.1f}" and f"+{x:.1f}" (x >= 0), f"{x:.2f}", str(int(x)),
\* f"-{x:.0f}" (x >= 0), the literal "0.0"
Fixed1(x) == Num(SignOf(x), Abs(x), 1)
MinusFixed1(x) == Num("-", x, 1)
PlusFixed1(x) == Num("+", x, 1)
Fixed2(x) == Num(SignOf(x), Abs(x), 2)
IntText(x) == Num(SignOf(x), Abs(x), 0)
MinusFixed0(x) == Num("-", x, 0)
ZeroText == Fixed1(0)

\* "🥇" if x == 1 else "🥈" if x == 2 else "🥉" if x == 3 else str(x)
PosText(x) == IF x \in {1, 2, 3} THEN Medal(x) ELSE IntText(x)

\* pd.notna(x) and x > 0
NotNaPositive(x) == x # NULL /\ Val(x) > 0

----------------------------------------------------------------------------
(* Tables the track and driver reports read *)

MaxLaps == 2

\* drivers: trust_level 0 is a guest, > 0 a registered member.
drivers == <<
    [last_name |-> "Rossi",   trust_level |-> 1],
    [last_name |-> "Bianchi", trust_level |-> 2],
    [last_name |-> "Guest",   trust_level |-> 0],
    [last_name |-> "Verdi",   trust_level |-> 1] >>

DriverIds == DOMAIN drivers

\* The drivers whose laps and results the imports below bring.
Entrants == {1, 2, 3}

\* sessions: competition_id NULL is an unofficial session.  Session 2 is
\* earlier than session 1, so row order and date order differ.  session_date
\* counts half days: sessions 2 and 1 fall on day 1, sessions 3 and 4 on day 2.
sessions == <<
    [track_name |-> "Monza", session_date |-> 2, session_type |-> "R",  competition_id |-> Some(1),
     session_order |-> 2, best_lap_overall |-> Some(90000)],
    [track_name |-> "Monza", session_date |-> 1, session_type |-> "Q",  competition_id |-> Some(1),
     session_order |-> 1, best_lap_overall |-> NULL],
    [track_name |-> "Monza", session_date |-> 3, session_type |-> "FP", competition_id |-> NULL,
     session_order |-> 1, best_lap_overall |-> Some(90000)],
    [track_name |-> "Spa",   session_date |-> 4, session_type |-> "R",  competition_id |-> Some(2),
     session_order |-> 1, best_lap_overall |-> NULL] >>

SessionIds == DOMAIN sessions
Tracks == {sessions[s].track_name : s \in SessionIds}

\* Lap times (ms) an import can bring: zero, a 20 s lap (shorter than any
\* real lap) and a 1:30 lap.
LapTimes == {0, 20000, 90000}

LapRows == [driver_id : Entrants, session_id : SessionIds,
            lap_time : LapTimes, is_valid_for_best : {0, 1}]

Track(l) == sessions[l.session_id].track_name
Official(l) == sessions[l.session_id].competition_id # NULL
Trusted(l) == drivers[l.driver_id].trust_level > 0

\* WHERE l.is_valid_for_best = 1 AND l.lap_time > 0
\*   AND s.competition_id IS NOT NULL AND d.trust_level > 0
EligibleAnyDriver(l) ==
    /\ l.is_valid_for_best = 1
    /\ l.lap_time > 0
    /\ Official(l)

Eligible(l) ==
    /\ l.is_valid_for_best = 1
    /\ l.lap_time > 0
    /\ Official(l)
    /\ Trusted(l)

\* The rows of laps as a set, and the number of rows of it in a set S.
LapSet == BagToSet(laps)
CountIn(S) == BagCardinality([l \in S \cap LapSet |-> CopiesIn(l, laps)])

\* The bag of F(l) over the rows l of laps that lie in S.
RowsOf(S, F(_)) ==
    [r \in {F(l) : l \in S \cap LapSet} |-> CountIn({l \in S : F(l) = r})]

\* SUM(l.lap_time) over the rows of laps that lie in S.
RECURSIVE SumLapTime(_)
SumLapTime(S) ==
    IF S \cap LapSet = {} THEN 0
    ELSE LET l == CHOOSE x \in S \cap LapSet : TRUE
         IN  l.lap_time * CopiesIn(l, laps) + SumLapTime(S \ {l})

----------------------------------------------------------------------------
(* get_all_tracks_summary *)

\* WITH track_records AS (SELECT s.track_name, MIN(l.lap_time) ... GROUP BY s.track_name)
track_records ==
    LET el == {l \in LapSet : Eligible(l)}
    IN  [t \in {Track(l) : l \in el} |-> Min({l.lap_time : l \in {x \in el : Track(x) = t}})]

\* The joined rows of one track's group: JOIN laps l ON tr.best_lap = l.lap_time
\* JOIN sessions s ON ... AND s.track_name = tr.track_name WHERE valid, official, trusted.
SummaryGroup(t) ==
    {l \in LapSet :
        /\ l.lap_time = track_records[t]
        /\ Track(l) = t
        /\ l.is_valid_for_best = 1
        /\ Official(l)
        /\ Trusted(l)}

SummaryRow(t, l) ==
    [track_name     |-> t,
     best_lap       |-> track_records[t],
     driver_name    |-> drivers[l.driver_id].last_name,
     session_date   |-> sessions[l.session_id].session_date,
     session_type   |-> sessions[l.session_id].session_type,
     competition_id |-> sessions[l.session_id].competition_id]

\* ORDER BY tr.best_lap ASC
ByBestLap(a, b) == a.best_lap < b.best_lap

\* GROUP BY tr.track_name with bare columns: one row per group, the bare
\* columns taken from any row of the group.
TracksSummaryUngrouped ==
    /\ \E s \in OrderedBy(SetToBag(UNION {{SummaryRow(t, l) : l \in SummaryGroup(t)} :
                                             t \in DOMAIN track_records}),
                          ByBestLap) :
           view' = [q |-> "tracks_summary", rows |-> safe_sql_query(s)]
    /\ UNCHANGED <<reportVars, db_ok, leagueVars, laps, compVars, champVars>>

get_all_tracks_summary ==
    \E pick \in [DOMAIN track_records -> LapSet] :
        /\ \A t \in DOMAIN track_records : pick[t] \in SummaryGroup(t)
        /\ \E s \in OrderedBy(SetToBag({SummaryRow(t, pick[t]) : t \in DOMAIN track_records}),
                              ByBestLap) :
               view' = [q |-> "tracks_summary", rows |-> safe_sql_query(s)]
        /\ UNCHANGED <<reportVars, db_ok, leagueVars, laps, compVars, champVars>>

----------------------------------------------------------------------------
(* get_track_statistics *)

\* FROM sessions s LEFT JOIN laps l LEFT JOIN drivers d WHERE s.track_name = ?
\*   AND valid AND lap_time > 0 AND official AND trusted
StatRows(track) == {l \in LapSet : Track(l) = track /\ Eligible(l)}

\* record_query: WHERE s.track_name = ? AND l.lap_time = ? AND valid, official, trusted
RecordRows(track, best) ==
    {l \in LapSet :
        /\ best # NULL
        /\ Track(l) = track
        /\ l.lap_time = Val(best)
        /\ l.is_valid_for_best = 1
        /\ Official(l)
        /\ Trusted(l)}

TrackStats(track, holder, date) ==
    LET rows == StatRows(track)
        n    == CountIn(rows)
        best == IF rows = {} THEN NULL ELSE Some(Min({l.lap_time : l \in rows}))
    IN  [total_sessions    |-> Cardinality({l.session_id : l \in rows}),
         unique_drivers    |-> Cardinality({l.driver_id : l \in rows}),
         total_laps        |-> n,
         best_time         |-> best,
         avg_time          |-> IF rows = {} THEN NULL ELSE Some(SumLapTime(rows) \div n),
         record_holder     |-> holder,
         record_date       |-> date,
         last_session_date |-> IF rows = {} THEN NULL
                               ELSE Some(Max({sessions[l.session_id].session_date : l \in rows})),
         official_sessions |-> Cardinality({l.session_id : l \in rows})]

\* The aggregate SELECT always yields one row; the record holder is the
\* row LIMIT 1 returns, any of the laps that match.  An exception gives {}.
get_track_statistics(track) ==
    LET rows == StatRows(track)
        best == IF rows = {} THEN NULL ELSE Some(Min({l.lap_time : l \in rows}))
        rec  == RecordRows(track, best)
    IN  /\ \/ /\ ~db_ok
              /\ view' = [q |-> "track_statistics", track |-> track, stats |-> <<>>]
           \/ /\ db_ok
              /\ rec = {}
              /\ view' = [q |-> "track_statistics", track |-> track,
                          stats |-> TrackStats(track, "N/A", NULL)]
           \/ /\ db_ok
              /\ \E l \in rec :
                    view' = [q |-> "track_statistics", track |-> track,
                             stats |-> TrackStats(track, drivers[l.driver_id].last_name,
                                                  Some(sessions[l.session_id].session_date))]
        /\ UNCHANGED <<reportVars, db_ok, leagueVars, laps, compVars, champVars>>

----------------------------------------------------------------------------
(* get_track_leaderboard *)

LeaderboardLimit == 50

\* WITH driver_best_laps AS (SELECT l.driver_id, MIN(l.lap_time) ... GROUP BY l.driver_id)
driver_best_laps(track) ==
    LET el == {l \in LapSet : Track(l) = track /\ Eligible(l)}
    IN  [d \in {l.driver_id : l \in el} |->
            Min({l.lap_time : l \in {x \in el : x.driver_id = d}})]

LeaderboardRow(l) ==
    [driver_name    |-> drivers[l.driver_id].last_name,
     best_lap       |-> l.lap_time,
     session_date   |-> sessions[l.session_id].session_date,
     session_type   |-> sessions[l.session_id].session_type,
     competition_id |-> sessions[l.session_id].competition_id]

\* JOIN laps l ON l.driver_id = dbl.driver_id AND l.lap_time = dbl.best_lap
\* WHERE s.track_name = ? AND valid AND official AND trusted: one row for
\* every lap that matches, no GROUP BY.
LeaderboardJoin(track) ==
    {l \in LapSet :
        /\ l.driver_id \in DOMAIN driver_best_laps(track)
        /\ l.lap_time = driver_best_laps(track)[l.driver_id]
        /\ Track(l) = track
        /\ l.is_valid_for_best = 1
        /\ Official(l)
        /\ Trusted(l)}

Limit(s, n) == SubSeq(s, 1, IF Len(s) < n THEN Len(s) ELSE n)

get_track_leaderboard(track) ==
    /\ \E s \in OrderedBy(RowsOf(LeaderboardJoin(track), LeaderboardRow), ByBestLap) :
          view' = [q |-> "track_leaderboard", track |-> track,
                   rows |-> safe_sql_query(Limit(s, LeaderboardLimit))]
    /\ UNCHANGED <<reportVars, db_ok, leagueVars, laps, compVars, champVars>>

----------------------------------------------------------------------------
(* get_driver_best_times *)

\* WHERE l.driver_id = ? AND l.is_valid_for_best = 1 AND l.lap_time > 0
DriverLaps(driver) ==
    {l \in LapSet : l.driver_id = driver /\ l.is_valid_for_best = 1 /\ l.lap_time > 0}

\* driver_track_bests: GROUP BY s.track_name
driver_track_bests(driver) ==
    [t \in {Track(l) : l \in DriverLaps(driver)} |->
        Min({l.lap_time : l \in {x \in DriverLaps(driver) : Track(x) = t}})]

\* track_records of get_driver_best_times: every valid lap, any session, any driver.
all_track_records ==
    LET v == {l \in LapSet : l.is_valid_for_best = 1 /\ l.lap_time > 0}
    IN  [t \in {Track(l) : l \in v} |-> Min({l.lap_time : l \in {x \in v : Track(x) = t}})]

BestTimesGroup(driver, t) ==
    {l \in LapSet :
        /\ l.lap_time = driver_track_bests(driver)[t]
        /\ Track(l) = t
        /\ l.driver_id = driver
        /\ l.is_valid_for_best = 1}

BestTimesRow(driver, t, l) ==
    [track_name     |-> t,
     best_lap       |-> driver_track_bests(driver)[t],
     valid_laps     |-> CountIn({x \in DriverLaps(driver) : Track(x) = t}),
     session_date   |-> sessions[l.session_id].session_date,
     session_type   |-> sessions[l.session_id].session_type,
     competition_id |-> sessions[l.session_id].competition_id,
     is_record      |-> IF driver_track_bests(driver)[t] = all_track_records[t] THEN 1 ELSE 0]

\* ORDER BY s.session_date DESC
BySessionDateDesc(a, b) == a.session_date > b.session_date

get_driver_best_times(driver) ==
    /\ \E pick \in [DOMAIN driver_track_bests(driver) -> LapSet] :
          /\ \A t \in DOMAIN pick : pick[t] \in BestTimesGroup(driver, t)
          /\ \E s \in OrderedBy(SetToBag({BestTimesRow(driver, t, pick[t]) : t \in DOMAIN pick}),
                                BySessionDateDesc) :
                view' = [q |-> "driver_best_times", driver |-> driver,
                         rows |-> safe_sql_query(s)]
    /\ UNCHANGED <<reportVars, db_ok, leagueVars, laps, compVars, champVars>>

----------------------------------------------------------------------------
(* get_all_drivers_summary *)

\* The position of a last name in alphabetical order (ORDER BY d.last_name).
LastNameRank(name) ==
    CHOOSE i \in 1..4 : <<"Bianchi", "Guest", "Rossi", "Verdi">>[i] = name

ByDriverName(a, b) == LastNameRank(a.driver_name) < LastNameRank(b.driver_name)

\* records: COUNT(DISTINCT s.track_name) over the driver's valid laps whose
\* time is the minimum over the valid laps of the track (any session, any
\* driver).
RecordsHeld(driver) ==
    Cardinality({Track(l) : l \in {x \in LapSet :
                                       /\ x.driver_id = driver
                                       /\ x.is_valid_for_best = 1
                                       /\ x.lap_time > 0
                                       /\ x.lap_time = all_track_records[Track(x)]}})

\* championships: SUM(CASE WHEN position = 1 THEN 1 ELSE 0 END) GROUP BY driver_id
ChampionshipsWon(driver) ==
    Cardinality({cs \in championship_standings : cs.driver_id = driver /\ cs.position = 1})

\* FROM drivers d ... WHERE d.trust_level > 0 AND EXISTS (SELECT 1 FROM laps l
\* WHERE l.driver_id = d.driver_id)
DriversSummaryRows ==
    {[driver_id     |-> d,
      driver_name   |-> drivers[d].last_name,
      championships |-> ChampionshipsWon(d),
      records       |-> RecordsHeld(d)] :
        d \in {x \in DriverIds : /\ drivers[x].trust_level > 0
                                 /\ \E l \in LapSet : l.driver_id = x}}

get_all_drivers_summary ==
    /\ \E s \in OrderedBy(SetToBag(DriversSummaryRows), ByDriverName) :
          view' = [q |-> "drivers_summary", rows |-> safe_sql_query(s)]
    /\ UNCHANGED <<reportVars, db_ok, leagueVars, laps, compVars, champVars>>

----------------------------------------------------------------------------
(* show_track_details *)

\* "N/A"
NotAvailable == [kind |-> "N/A"]

\* The characters of a printed number.
Digit(n) == <<"0", "1", "2", "3", "4", "5", "6", "7", "8", "9">>[n + 1]

\* str(n) / f"{n}" of an integer n >= 0
RECURSIVE Decimal(_)
Decimal(n) == IF n < 10 THEN <<Digit(n)>> ELSE Decimal(n \div 10) \o <<Digit(n % 10)>>

\* Zero padding on the left up to a width of w characters.
RECURSIVE ZeroPad(_, _)
ZeroPad(text, w) == IF Len(text) < w THEN ZeroPad(<<"0">> \o text, w) ELSE text

\* f"{seconds:06.3f}" of seconds = ms / 1000, ms an integer in 0 .. 59999:
\* three decimals, zero padded to six characters.
Seconds06_3f(ms) ==
    ZeroPad(Decimal(ms \div 1000) \o <<".">> \o ZeroPad(Decimal(ms % 1000), 3), 6)

\* format_lap_time: "N/A" for nothing, a non-positive time, a time above
\* 3 600 000 ms or below 30 000 ms; else f"{minutes}:{seconds:06.3f}".
FormatLapTimeOpenWindow(lap_time_ms) ==
    IF lap_time_ms = NULL \/ Val(lap_time_ms) <= 0 THEN NotAvailable
    ELSE IF Val(lap_time_ms) >= 3600000 \/ Val(lap_time_ms) <= 30000 THEN NotAvailable
    ELSE [kind |-> "time",
          text |-> Decimal(Val(lap_time_ms) \div 60000) \o <<":">>
                      \o Seconds06_3f(Val(lap_time_ms) % 60000)]

format_lap_time(lap_time_ms) ==
    IF lap_time_ms = NULL \/ Val(lap_time_ms) <= 0 THEN NotAvailable
    ELSE IF Val(lap_time_ms) > 3600000 \/ Val(lap_time_ms) < 30000 THEN NotAvailable
    ELSE [kind |-> "time",
          text |-> Decimal(Val(lap_time_ms) \div 60000) \o <<":">>
                      \o Seconds06_3f(Val(lap_time_ms) % 60000)]

\* format_time_duration: "0.000" for nothing or a non-positive duration,
\* f"0.{ms:03d}" below a second, else f"{ms / 1000:.3f}".
format_time_duration(milliseconds) ==
    IF milliseconds <= 0 THEN [kind |-> "s.sss", seconds |-> 0, millis |-> 0]
    ELSE IF milliseconds < 1000 THEN [kind |-> "s.sss", seconds |-> 0, millis |-> milliseconds]
    ELSE [kind |-> "s.sss", seconds |-> milliseconds \div 1000, millis |-> milliseconds % 1000]

\* What get_track_statistics can return (the holder is the row LIMIT 1 gives).
TrackStatisticsResults(track) ==
    LET rows == StatRows(track)
        best == IF rows = {} THEN NULL ELSE Some(Min({l.lap_time : l \in rows}))
        rec  == RecordRows(track, best)
    IN  IF ~db_ok THEN {<<>>}
        ELSE IF rec = {} THEN {TrackStats(track, "N/A", NULL)}
        ELSE {TrackStats(track, drivers[l.driver_id].last_name,
                         Some(sessions[l.session_id].session_date)) : l \in rec}

\* What get_track_leaderboard can return.
TrackLeaderboardResults(track) ==
    {safe_sql_query(Limit(s, LeaderboardLimit)) :
        s \in OrderedBy(RowsOf(LeaderboardJoin(track), LeaderboardRow), ByBestLap)}

\* any(track_stats.values()): some value of the dict is truthy (a number
\* other than 0, a non-empty string; None and 0 are not).
AnyValue(track_stats) ==
    /\ DOMAIN track_stats # {}
    /\ \/ track_stats.total_sessions # 0
       \/ track_stats.unique_drivers # 0
       \/ track_stats.total_laps # 0
       \/ track_stats.best_time # NULL /\ Val(track_stats.best_time) # 0
       \/ track_stats.avg_time # NULL /\ Val(track_stats.avg_time) # 0
       \/ track_stats.record_holder # ""
       \/ track_stats.record_date # NULL
       \/ track_stats.last_session_date # NULL
       \/ track_stats.official_sessions # 0

\* One row of leaderboard_display: position (medal for the first three),
\* driver, formatted best time, gap to the first row, record date.
LeaderboardDisplayRow(leaderboard_df, i) ==
    [Pos         |-> PosText(i),
     driver_name |-> leaderboard_df[i].driver_name,
     BestTime    |-> format_lap_time(Some(leaderboard_df[i].best_lap)),
     Gap         |-> IF leaderboard_df[i].best_lap # leaderboard_df[1].best_lap
                     THEN [kind |-> "+", duration |->
                             format_time_duration(leaderboard_df[i].best_lap
                                                    - leaderboard_df[1].best_lap)]
                     ELSE Dash,
     RecordDate  |-> leaderboard_df[i].session_date]

\* The "Track Statistics" block.
StatisticsBlock(track_stats) ==
    [record_holder     |-> track_stats.record_holder,
     best_time         |-> IF track_stats.best_time # NULL /\ Val(track_stats.best_time) # 0
                           THEN format_lap_time(track_stats.best_time) ELSE NotAvailable,
     record_date       |-> track_stats.record_date,
     avg_time          |-> IF track_stats.avg_time # NULL /\ Val(track_stats.avg_time) # 0
                           THEN format_lap_time(track_stats.avg_time) ELSE NotAvailable,
     unique_drivers    |-> track_stats.unique_drivers,
     total_sessions    |-> track_stats.total_sessions,
     official_sessions |-> track_stats.official_sessions,
     last_session_date |-> track_stats.last_session_date]

\* show_track_details: the warning "No data available for this track" when no
\* value of the statistics is truthy; else the leaderboard (or the warning
\* "No data available for leaderboard") followed by the statistics block.
show_track_details(track_name) ==
    /\ \E track_stats \in TrackStatisticsResults(track_name) :
          \/ /\ ~AnyValue(track_stats)
             /\ view' = [q |-> "track_details", track |-> track_name, shown |-> "no_data"]
          \/ /\ AnyValue(track_stats)
             /\ \E leaderboard_df \in TrackLeaderboardResults(track_name) :
                   view' = [q           |-> "track_details",
                            track       |-> track_name,
                            shown       |-> "details",
                            leaderboard |-> [i \in DOMAIN leaderboard_df |->
                                               LeaderboardDisplayRow(leaderboard_df, i)],
                            statistics  |-> StatisticsBlock(track_stats)]
    /\ UNCHANGED <<reportVars, db_ok, leagueVars, laps, compVars, champVars>>

----------------------------------------------------------------------------
(* The importer adds a lap; the pages are rendered again from scratch. *)

InsertLap ==
    /\ BagCardinality(laps) < MaxLaps
    /\ \E l \in LapRows : laps' = laps (+) SetToBag({l})
    /\ view' = [q |-> "none"]
    /\ UNCHANGED <<reportVars, db_ok, leagueVars, compVars, champVars>>

\* The database right after it is created: every table empty, nothing
\* queried or rendered yet.
NoLaps ==
    /\ laps = EmptyBag
    /\ view = [q |-> "none"]

NoCompetition ==
    /\ competition_standings = {}
    /\ results = [q |-> "none"]
    /\ call_log = [failed |-> NULL, empty |-> NULL]

NoChampionship ==
    /\ championship_standings = {}
    /\ manual_penalties = EmptyBag
    /\ total_rounds = NULL
    /\ competitions = {}
    /\ standings = [q |-> "none"]
    /\ page = [shown |-> "none"]

NoLeague ==
    /\ league_standings = {}
    /\ league_page = [shown |-> "none"]

NoReports ==
    /\ session_results = {}
    /\ sessions_view = [q |-> "none"]
    /\ catalog = {}
    /\ selector = [key |-> "none"]
    /\ connections = 0

Init ==
    /\ db_ok = TRUE
    /\ NoLaps
    /\ NoCompetition
    /\ NoChampionship
    /\ NoLeague
    /\ NoReports

NextLaps ==
    \/ InsertLap
    \/ get_all_tracks_summary
    \/ \E track \in Tracks : get_track_statistics(track)
    \/ \E track \in Tracks : get_track_leaderboard(track)
    \/ \E driver \in DriverIds : get_driver_best_times(driver)
    \/ \E track \in Tracks : show_track_details(track)
    \/ get_all_drivers_summary

SpecLaps == Init /\ [][NextLaps]_vars

----------------------------------------------------------------------------
(* Claims about the track records and personal bests *)

Plausible(t) == t > 30000 /\ t < 3600000

ViewRows == IF view.q \in {"tracks_summary", "track_leaderboard", "driver_best_times"}
            THEN {view.rows[i] : i \in DOMAIN view.rows} ELSE {}

\* C1: no lap selected as a track record (get_all_tracks_summary,
\* get_track_statistics) or as a personal best (get_track_leaderboard,
\* get_driver_best_times) has a duration <= 30 000 ms or >= 3 600 000 ms.
C1_BestLapPlausible ==
    /\ \A r \in ViewRows : Plausible(r.best_lap)
    /\ (view.q = "track_statistics" /\ DOMAIN view.stats # {} /\ view.stats.best_time # NULL)
          => Plausible(Val(view.stats.best_time))

\* The eligible laps of a track that share its minimum time, and the one
\* the tie-break names: earliest session, then lowest driver id.
TiedLaps(t) ==
    LET el == {l \in LapSet : Eligible(l) /\ Track(l) = t}
    IN  {l \in el : \A m \in el : l.lap_time <= m.lap_time}

EarlierOrLower(l, m) ==
    \/ sessions[l.session_id].session_date < sessions[m.session_id].session_date
    \/ /\ sessions[l.session_id].session_date = sessions[m.session_id].session_date
       /\ l.driver_id <= m.driver_id

TieBreakHolders(t) ==
    {l \in TiedLaps(t) : \A m \in TiedLaps(t) : EarlierOrLower(l, m)}

IsTieBreakChoice(t, holder, date) ==
    \E l \in TieBreakHolders(t) :
        /\ holder = drivers[l.driver_id].last_name
        /\ date = sessions[l.session_id].session_date

\* C2: among eligible laps of a track that tie for the minimum time, the
\* track record's holder and date are those of the lap of the earliest
\* session and, among equal session times, of the lowest driver id.
C2_TieBreakEarliestThenLowestId ==
    /\ view.q = "tracks_summary" =>
          \A i \in DOMAIN view.rows :
              IsTieBreakChoice(view.rows[i].track_name, view.rows[i].driver_name,
                               view.rows[i].session_date)
    /\ (view.q = "track_statistics" /\ DOMAIN view.stats # {}
          /\ view.stats.record_date # NULL) =>
          IsTieBreakChoice(view.track, view.stats.record_holder,
                           Val(view.stats.record_date))

\* C11: for a track with zero eligible laps show_track_details yields the
\* no-data outcome ("No data available for this track") and renders neither
\* a leaderboard nor a statistics block.
C11_NoDataWithoutEligibleLaps ==
    (view.q = "track_details" /\ StatRows(view.track) = {}) => view.shown = "no_data"

\* The laps of track t that can hold its record: valid for best, positive,
\* set in a session linked to a competition by a driver with trust_level > 0.
QualifiedLaps(t) ==
    {l \in LapSet :
        /\ sessions[l.session_id].track_name = t
        /\ l.is_valid_for_best = 1
        /\ l.lap_time > 0
        /\ sessions[l.session_id].competition_id # NULL
        /\ drivers[l.driver_id].trust_level > 0}

IsRecordOf(t, time, holder, date) ==
    /\ QualifiedLaps(t) # {}
    /\ time = Min({l.lap_time : l \in QualifiedLaps(t)})
    /\ \E l \in QualifiedLaps(t) :
          /\ l.lap_time = time
          /\ holder = drivers[l.driver_id].last_name
          /\ date = sessions[l.session_id].session_date

\* C15: every row of the all-time track record view (get_all_tracks_summary,
\* get_track_statistics) names a driver with trust_level > 0 and a session
\* linked to a competition, and its time is the minimum over exactly the
\* qualified laps of the track: a faster lap of a guest or of an unlinked
\* session is never the record.
C15_RecordOnlyFromQualifiedLaps ==
    /\ view.q = "tracks_summary" =>
          \A i \in DOMAIN view.rows :
              /\ IsRecordOf(view.rows[i].track_name, view.rows[i].best_lap,
                            view.rows[i].driver_name, view.rows[i].session_date)
              /\ view.rows[i].competition_id # NULL
    /\ (view.q = "track_statistics" /\ DOMAIN view.stats # {}) =>
          IF view.stats.best_time = NULL THEN QualifiedLaps(view.track) = {}
          ELSE IsRecordOf(view.track, Val(view.stats.best_time), view.stats.record_holder,
                          Val(view.stats.record_date))

\* A guest's valid 20 s lap in an official session of a track whose record,
\* in the summary and in the statistics, is the 1:30 lap of a member.
C15_Witness ==
    /\ \E l \in LapSet : /\ drivers[l.driver_id].trust_level = 0
                         /\ l.lap_time = 20000 /\ l.is_valid_for_best = 1
                         /\ sessions[l.session_id].competition_id # NULL
                         /\ sessions[l.session_id].track_name = "Monza"
    /\ \/ /\ view.q = "tracks_summary"
          /\ \E i \in DOMAIN view.rows : /\ view.rows[i].track_name = "Monza"
                                         /\ view.rows[i].best_lap = 90000
       \/ /\ view.q = "track_statistics"
          /\ view.track = "Monza"
          /\ DOMAIN view.stats # {}
          /\ view.stats.best_time = Some(90000)

\* The official, trust-qualified record of track t as the all-tracks summary
\* reports it, and a driver's best valid lap on t.
HasOfficialRecord(t) == QualifiedLaps(t) # {}
OfficialRecord(t) == Min({l.lap_time : l \in QualifiedLaps(t)})

ValidLapsOf(d, t) ==
    {l \in LapSet : /\ l.driver_id = d
                    /\ sessions[l.session_id].track_name = t
                    /\ l.is_valid_for_best = 1
                    /\ l.lap_time > 0}

HoldsOfficialRecord(d, t) ==
    /\ HasOfficialRecord(t)
    /\ ValidLapsOf(d, t) # {}
    /\ Min({l.lap_time : l \in ValidLapsOf(d, t)}) = OfficialRecord(t)

\* C24: a driver is flagged is_record in the per-driver best times, and
\* credited with a record in the drivers summary, exactly when the driver's
\* best lap on the track equals the official track record of the all-tracks
\* summary.
C24_RecordMeansOfficialRecord ==
    /\ view.q = "driver_best_times" =>
          \A i \in DOMAIN view.rows :
              (view.rows[i].is_record = 1)
                  <=> HoldsOfficialRecord(view.driver, view.rows[i].track_name)
    /\ view.q = "drivers_summary" =>
          \A i \in DOMAIN view.rows :
              view.rows[i].records =
                  Cardinality({t \in Tracks : HoldsOfficialRecord(view.rows[i].driver_id, t)})

\* C16: get_track_leaderboard returns at most one row per driver, and the
\* leaderboard of the track page gives each driver one rank.
C16_OneRowPerDriver ==
    /\ view.q = "track_leaderboard" =>
          \A i, j \in DOMAIN view.rows :
              view.rows[i].driver_name = view.rows[j].driver_name => i = j
    /\ (view.q = "track_details" /\ view.shown = "details") =>
          \A i, j \in DOMAIN view.leaderboard :
              view.leaderboard[i].driver_name = view.leaderboard[j].driver_name => i = j

\* C17: get_all_tracks_summary returns exactly one row for every track with
\* at least one qualified lap and no row for a track without.
C17_OneRowPerTrackWithLaps ==
    view.q = "tracks_summary" =>
        \A t \in Tracks :
            Cardinality({i \in DOMAIN view.rows : view.rows[i].track_name = t})
                = (IF QualifiedLaps(t) # {} THEN 1 ELSE 0)

\* Two qualified laps tie for the minimum of Monza and the summary has one
\* row for Monza and none for Spa.
C17_Witness ==
    /\ view.q = "tracks_summary"
    /\ Len(view.rows) = 1
    /\ view.rows[1].track_name = "Monza"
    /\ Cardinality({l \in QualifiedLaps("Monza") : l.lap_time = view.rows[1].best_lap}) = 2

----------------------------------------------------------------------------
(* get_competition_results *)

MaxCompRows == 3

CompetitionIds == {1, 2}

\* Points an import can store: none (no classified result), zero, some.
RacePoints == {NULL, Some(0), Some(5)}
TotalPoints == {NULL, Some(0), Some(10)}

\* The scorer stores one row per (competition, driver).
StoreCompetitionStanding ==
    /\ Cardinality(competition_standings) < MaxCompRows
    /\ \E c \in CompetitionIds, d \in Entrants, rp \in RacePoints, tp \in TotalPoints :
          /\ ~\E r \in competition_standings : r.competition_id = c /\ r.driver_id = d
          /\ competition_standings' = competition_standings \cup
                {[competition_id |-> c, driver_id |-> d, race_points |-> rp,
                  pole_points |-> NULL, fastest_lap_points |-> NULL, points_bonus |-> NULL,
                  points_dropped |-> NULL, total_points |-> tp,
                  guests_beaten |-> NULL, beaten_by_guests |-> NULL]}
    /\ results' = [q |-> "none"]
    /\ sessions_view' = [q |-> "none"]
    /\ UNCHANGED <<db_ok, leagueVars, call_log, lapVars, champVars, session_results,
                   catalog, selector, connections>>

\* SQLite's order of two nullable numbers: NULL is smaller than any number.
SqlLess(x, y) ==
    \/ x = NULL /\ y # NULL
    \/ x # NULL /\ y # NULL /\ Val(x) < Val(y)

\* CASE WHEN cs.total_points = 0 THEN d.trust_level ELSE 0 END
ZeroPointsTrust(r) == IF r.total_points = Some(0) THEN r.trust_level ELSE 0

\* ORDER BY cs.total_points DESC, CASE ... END DESC, cs.race_points DESC:
\* a comes strictly before b.
CompetitionOrderSwapped(a, b) ==
    \/ SqlLess(b.total_points, a.total_points)
    \/ /\ a.total_points = b.total_points
       /\ \/ SqlLess(b.race_points, a.race_points)
          \/ /\ a.race_points = b.race_points
             /\ ZeroPointsTrust(b) < ZeroPointsTrust(a)

CompetitionOrderNoCase(a, b) ==
    \/ SqlLess(b.total_points, a.total_points)
    \/ /\ a.total_points = b.total_points
       /\ \/ b.trust_level < a.trust_level
          \/ /\ a.trust_level = b.trust_level
             /\ SqlLess(b.race_points, a.race_points)

CompetitionOrder(a, b) ==
    \/ SqlLess(b.total_points, a.total_points)
    \/ /\ a.total_points = b.total_points
       /\ \/ ZeroPointsTrust(b) < ZeroPointsTrust(a)
          \/ /\ ZeroPointsTrust(a) = ZeroPointsTrust(b)
             /\ SqlLess(b.race_points, a.race_points)

\* FROM competition_standings cs JOIN drivers d ON cs.driver_id = d.driver_id
\* WHERE cs.competition_id = ?
CompetitionRows(competition_id) ==
    {[driver             |-> drivers[r.driver_id].last_name,
      race_points        |-> r.race_points,
      pole_points        |-> r.pole_points,
      fastest_lap_points |-> r.fastest_lap_points,
      points_bonus       |-> r.points_bonus,
      points_dropped     |-> r.points_dropped,
      total_points       |-> r.total_points,
      guests_beaten      |-> r.guests_beaten,
      beaten_by_guests   |-> r.beaten_by_guests,
      trust_level        |-> drivers[r.driver_id].trust_level] :
        r \in {x \in competition_standings :
                  x.competition_id = competition_id /\ x.driver_id \in DriverIds}}

\* What the call adds to the log of return values: the value a failed
\* query returned, the value a query that matched no row returned.
Logged(matched, ret) ==
    [failed |-> IF ~db_ok THEN Some(ret) ELSE call_log.failed,
     empty  |-> IF db_ok /\ matched = {} THEN Some(ret) ELSE call_log.empty]

get_competition_results(competition_id) ==
    /\ \E s \in OrderedBy(SetToBag(CompetitionRows(competition_id)), CompetitionOrder) :
          /\ results' = [q |-> "competition_results", competition_id |-> competition_id,
                         rows |-> safe_sql_query(s)]
          /\ call_log' = Logged(CompetitionRows(competition_id), safe_sql_query(s))
    /\ UNCHANGED <<reportVars, db_ok, leagueVars, competition_standings, lapVars, champVars>>

NextCompetition ==
    \/ StoreCompetitionStanding
    \/ \E c \in CompetitionIds : get_competition_results(c)

SpecCompetition == Init /\ [][NextCompetition]_vars

----------------------------------------------------------------------------
(* Claims about the competition leaderboard *)

ResultRows == IF results.q = "competition_results" THEN results.rows ELSE <<>>

SqlGeq(x, y) == ~SqlLess(x, y)

\* C3 as the specification states it: total_points descending, then
\* race_points descending, and trust_level descending only among rows with
\* total_points = 0 and equal race_points.
C3_RacePointsBeforeTrust ==
    \A i, j \in DOMAIN ResultRows :
        i < j =>
            LET a == ResultRows[i]
                b == ResultRows[j]
            IN  /\ SqlGeq(a.total_points, b.total_points)
                /\ a.total_points = b.total_points => SqlGeq(a.race_points, b.race_points)
                /\ (a.total_points = Some(0) /\ b.total_points = Some(0)
                      /\ a.race_points = b.race_points) => a.trust_level >= b.trust_level

\* C3 as amended: rows are ordered by total_points descending (no value
\* last); rows with total_points exactly 0 are ordered by trust_level
\* descending and, among equal trust_level, by race_points descending; rows
\* with any other equal total_points are ordered by race_points descending
\* whatever their trust_level.
C3_TrustBeforeRacePointsAtZero ==
    \A i, j \in DOMAIN ResultRows :
        i < j =>
            LET a == ResultRows[i]
                b == ResultRows[j]
            IN  /\ SqlGeq(a.total_points, b.total_points)
                /\ (a.total_points = b.total_points /\ a.total_points = Some(0)) =>
                      /\ a.trust_level >= b.trust_level
                      /\ a.trust_level = b.trust_level => SqlGeq(a.race_points, b.race_points)
                /\ (a.total_points = b.total_points /\ a.total_points # Some(0)) =>
                      SqlGeq(a.race_points, b.race_points)

\* A member with 0 total and 0 race points listed ahead of a guest with 0
\* total and 5 race points, and two rows with equal non-zero totals in which
\* the lower trust level with more race points comes first.
C3_Witness ==
    /\ \E i, j \in DOMAIN ResultRows :
          /\ i < j
          /\ ResultRows[i].total_points = Some(0) /\ ResultRows[j].total_points = Some(0)
          /\ ResultRows[i].trust_level > ResultRows[j].trust_level
          /\ SqlLess(ResultRows[i].race_points, ResultRows[j].race_points)
    /\ Len(ResultRows) = 3

\* C4: every registered driver (trust_level > 0) with total_points = 0 is
\* ranked above every guest (trust_level = 0) with total_points = 0,
\* whatever their race_points.
C4_MemberAboveGuestAtZero ==
    \A i, j \in DOMAIN ResultRows :
        (/\ ResultRows[i].trust_level > 0 /\ ResultRows[i].total_points = Some(0)
         /\ ResultRows[j].trust_level = 0 /\ ResultRows[j].total_points = Some(0))
            => i < j

\* Two members and a guest, all with total_points = 0, the guest with more
\* race points than either member.
C4_Witness ==
    /\ Len(ResultRows) = 3
    /\ \A i \in DOMAIN ResultRows : ResultRows[i].total_points = Some(0)
    /\ ResultRows[3].trust_level = 0
    /\ ResultRows[3].race_points = Some(5)
    /\ ResultRows[1].race_points = Some(0)
    /\ ResultRows[2].race_points = NULL

----------------------------------------------------------------------------
(* Sessions and their results *)

MaxSessionResults == 2

\* DATE(s.session_date): the day a session started on.
DATE(session_date) == (session_date + 1) \div 2

\* The results an import can bring: Rossi and Bianchi enter session 1 (the
\* race of competition 1), Rossi alone session 3 (an unofficial session).
\* A driver is classified (Rossi first, Bianchi second) or not, with or
\* without a best lap, without a total time, with a total of 30 minutes or
\* of 66 minutes 40 seconds; a spectator has none of these.
SessionResultRows ==
    LET entries == {[session_id |-> 1, driver_id |-> 1],
                    [session_id |-> 1, driver_id |-> 2],
                    [session_id |-> 3, driver_id |-> 1]}
    IN  {[session_id |-> e.session_id, driver_id |-> e.driver_id,
          position |-> IF classified THEN Some(e.driver_id) ELSE NULL,
          best_lap |-> b, total_time |-> t, is_spectator |-> 0] :
            e \in entries, classified \in BOOLEAN,
            b \in {NULL, Some(90000)}, t \in {NULL, Some(1800000), Some(4000000)}}
        \cup
        {[session_id |-> e.session_id, driver_id |-> e.driver_id, position |-> NULL,
          best_lap |-> NULL, total_time |-> NULL, is_spectator |-> 1] : e \in entries}

\* The importer stores the result of one driver in one session; the page is
\* rendered again from scratch.
StoreSessionResult ==
    /\ Cardinality(session_results) < MaxSessionResults
    /\ \E r \in SessionResultRows :
          /\ ~\E x \in session_results :
                 x.session_id = r.session_id /\ x.driver_id = r.driver_id
          /\ session_results' = session_results \cup {r}
    /\ sessions_view' = [q |-> "none"]
    /\ results' = [q |-> "none"]
    /\ UNCHANGED <<db_ok, lapVars, competition_standings, call_log, champVars, leagueVars,
                   catalog, selector, connections>>

\* A method that opens its connection inside try and closes it on the
\* success path only: nothing is left open when the query succeeds; when
\* the database fails, either connect() itself raised (nothing was opened)
\* or a later statement raised (the connection is still open at the return).
LeftOpen == IF db_ok THEN {0} ELSE {0, 1}

\* ORDER BY CASE WHEN sr.position IS NULL THEN 1 ELSE 0 END, sr.position
ResultOrder(a, b) ==
    \/ a.position # NULL /\ b.position = NULL
    \/ a.position # NULL /\ b.position # NULL /\ Val(a.position) < Val(b.position)

\* The orders in which the rows of session_results can come back.
ResultOrders == OrderedBy(SetToBag(session_results), ResultOrder)

\* get_session_results: the rows of one session JOIN drivers, in the order
\* ord of the table's rows.
SessionResultsDf(ord, session_id) ==
    LET mine == SelectSeq(ord, LAMBDA sr : sr.session_id = session_id)
    IN  safe_sql_query([i \in DOMAIN mine |->
                          [position     |-> mine[i].position,
                           driver       |-> drivers[mine[i].driver_id].last_name,
                           best_lap     |-> mine[i].best_lap,
                           total_time   |-> mine[i].total_time,
                           is_spectator |-> mine[i].is_spectator]])

get_session_results(session_id) ==
    /\ \E ord \in ResultOrders :
          sessions_view' = [q |-> "session_results", session_id |-> session_id,
                            rows |-> SessionResultsDf(ord, session_id)]
    /\ connections' \in LeftOpen
    /\ UNCHANGED <<db_ok, lapVars, compVars, champVars, leagueVars, session_results,
                   catalog, selector>>

\* The table of one session: Pos, Driver, Best Lap, Total Time.
\* Pos: "🥇" if x == 1 else "🥈" if x == 2 else "🥉" if x == 3
\*      else str(int(x)) if pd.notna(x) else "NC"
\* Best Lap, Total Time: format_lap_time(x) if pd.notna(x) else "N/A"
SessionTable(session_results_df) ==
    LET SessionPosText(x) == IF x = NULL THEN [kind |-> "NC"] ELSE PosText(Val(x))
        TimeCell(x) == IF x # NULL THEN format_lap_time(x) ELSE NotAvailable
    IN
    [i \in DOMAIN session_results_df |->
        [Pos        |-> SessionPosText(session_results_df[i].position),
         driver     |-> session_results_df[i].driver,
         best_lap   |-> TimeCell(session_results_df[i].best_lap),
         total_time |-> TimeCell(session_results_df[i].total_time)]]

\* get_competition_sessions: FROM sessions s LEFT JOIN session_results sr
\* ON s.session_id = sr.session_id AND s.best_lap_overall = sr.best_lap
\* AND sr.is_spectator = FALSE LEFT JOIN drivers d WHERE s.competition_id = ?
BestLapResults(s) ==
    {sr \in session_results :
        /\ sr.session_id = s
        /\ sessions[s].best_lap_overall # NULL
        /\ sr.best_lap = sessions[s].best_lap_overall
        /\ sr.is_spectator = 0}

CompetitionSessionRows(competition_id) ==
    LET CompetitionSessionRow(s, best_lap_driver) ==
            [session_id       |-> s,
             session_type     |-> sessions[s].session_type,
             session_date     |-> sessions[s].session_date,
             session_order    |-> sessions[s].session_order,
             best_lap_overall |-> sessions[s].best_lap_overall,
             best_lap_driver  |-> best_lap_driver]
    IN
    UNION {IF BestLapResults(s) = {} THEN {CompetitionSessionRow(s, NULL)}
           ELSE {CompetitionSessionRow(s, Some(drivers[sr.driver_id].last_name)) :
                    sr \in BestLapResults(s)} :
           s \in {x \in SessionIds : sessions[x].competition_id = Some(competition_id)}}

\* ORDER BY s.session_order, s.session_date
SessionOrder(a, b) ==
    \/ a.session_order < b.session_order
    \/ a.session_order = b.session_order /\ a.session_date < b.session_date

\* The lists get_competition_sessions can return: the rows in one of the
\* orders the ORDER BY admits, or [] when the query raised.
CompetitionSessionLists(competition_id) ==
    IF db_ok THEN OrderedBy(SetToBag(CompetitionSessionRows(competition_id)), SessionOrder)
    ELSE {<<>>}

get_competition_sessions(competition_id) ==
    /\ \E s \in CompetitionSessionLists(competition_id) :
          sessions_view' = [q |-> "competition_sessions",
                            competition_id |-> competition_id, sessions |-> s]
    /\ connections' \in LeftOpen
    /\ UNCHANGED <<db_ok, lapVars, compVars, champVars, leagueVars, session_results,
                   catalog, selector>>

\* The session blocks of a competition page: for every row that
\* get_competition_sessions returned, the header and the session's table.
\* best_lap_text, the text after "Best:" in the header, is the time and the
\* driver, the time alone, or nothing.
SessionBlocks(listed, ord) ==
    LET BestLapText(row) ==
            IF row.best_lap_overall # NULL /\ Val(row.best_lap_overall) # 0
            THEN Some([best   |-> format_lap_time(row.best_lap_overall),
                       driver |-> row.best_lap_driver])
            ELSE NULL
    IN
    [i \in DOMAIN listed |->
        [session_id    |-> listed[i].session_id,
         session_type  |-> listed[i].session_type,
         best_lap_text |-> BestLapText(listed[i]),
         table         |-> SessionTable(SessionResultsDf(ord, listed[i].session_id))]]

\* show_session_details: the header and the table of one session.
SessionDetails(session_id, ord) ==
    [session_id   |-> session_id,
     session_type |-> sessions[session_id].session_type,
     official     |-> sessions[session_id].competition_id # NULL,
     table        |-> SessionTable(SessionResultsDf(ord, session_id))]

show_session_details(session_id) ==
    /\ \E ord \in ResultOrders :
          sessions_view' = [q |-> "session_details",
                            details |-> SessionDetails(session_id, ord)]
    /\ connections' \in LeftOpen
    /\ UNCHANGED <<db_ok, lapVars, compVars, champVars, leagueVars, session_results,
                   catalog, selector>>

----------------------------------------------------------------------------
(* show_competition_details, show_4fun_competition_details                *)

\* The bonus columns a scorer can store next to the points: nothing, zeros,
\* positive values, a negative bonus.
BonusColumns ==
    {[pole_points |-> NULL, fastest_lap_points |-> NULL, points_bonus |-> NULL,
      points_dropped |-> NULL, guests_beaten |-> NULL, beaten_by_guests |-> NULL],
     [pole_points |-> Some(0), fastest_lap_points |-> Some(0), points_bonus |-> Some(0),
      points_dropped |-> Some(0), guests_beaten |-> Some(0), beaten_by_guests |-> Some(0)],
     [pole_points |-> Some(1), fastest_lap_points |-> Some(1), points_bonus |-> Some(2),
      points_dropped |-> Some(3), guests_beaten |-> Some(2), beaten_by_guests |-> Some(1)],
     [pole_points |-> Some(0), fastest_lap_points |-> NULL, points_bonus |-> Some(-2),
      points_dropped |-> NULL, guests_beaten |-> Some(1), beaten_by_guests |-> Some(0)]}

\* The race and total points of a scored row: no classified result, no
\* classified result and a total of 0, an explicit 0, points.
ScoredPoints ==
    {[race_points |-> NULL,    total_points |-> NULL],
     [race_points |-> NULL,    total_points |-> Some(0)],
     [race_points |-> Some(0), total_points |-> Some(0)],
     [race_points |-> Some(5), total_points |-> Some(10)]}

\* The scorer stores the full row of a driver of competition 1.
StoreCompetitionResult ==
    /\ Cardinality(competition_standings) < MaxCompRows
    /\ \E d \in Entrants, sp \in ScoredPoints, b \in BonusColumns :
          /\ ~\E r \in competition_standings : r.competition_id = 1 /\ r.driver_id = d
          /\ competition_standings' = competition_standings \cup
                {[competition_id |-> 1, driver_id |-> d, race_points |-> sp.race_points,
                  pole_points |-> b.pole_points,
                  fastest_lap_points |-> b.fastest_lap_points,
                  points_bonus |-> b.points_bonus, points_dropped |-> b.points_dropped,
                  total_points |-> sp.total_points, guests_beaten |-> b.guests_beaten,
                  beaten_by_guests |-> b.beaten_by_guests]}
    /\ results' = [q |-> "none"]
    /\ sessions_view' = [q |-> "none"]
    /\ UNCHANGED <<db_ok, leagueVars, call_log, lapVars, champVars, session_results,
                   catalog, selector, connections>>

\* "0.0" if notna and == 0 and trust_level > 0, else "-" if notna and == 0,
\* else f"{x:.1f}" if notna, else "-"
PointsCellTrustBlind(x, trust_level) ==
    IF x # NULL /\ Val(x) = 0 THEN Dash
    ELSE IF x # NULL THEN Fixed1(Val(x))
    ELSE Dash

PointsCell(x, trust_level) ==
    IF x # NULL /\ Val(x) = 0 /\ trust_level > 0 THEN ZeroText
    ELSE IF x # NULL /\ Val(x) = 0 THEN Dash
    ELSE IF x # NULL THEN Fixed1(Val(x))
    ELSE Dash

\* f"{int(x)}" if pd.notna(x) and x > 0 else "-"
CountCell(x) == IF NotNaPositive(x) THEN IntText(Val(x)) ELSE Dash

\* f"+{x:.1f}" if notna and x > 0, f"-{abs(x):.1f}" if notna and x < 0, else "-"
BonusCell(x) ==
    IF NotNaPositive(x) THEN PlusFixed1(Val(x))
    ELSE IF x # NULL /\ Val(x) < 0 THEN MinusFixed1(Abs(Val(x)))
    ELSE Dash

\* f"{x:.1f}" if pd.notna(x) and x > 0 else "-"
DroppedCell(x) == IF NotNaPositive(x) THEN Fixed1(Val(x)) ELSE Dash

\* One row of results_display, columns_to_show.
ResultsDisplayRow(results_df, i) ==
    LET row == results_df[i]
    IN  [Pos                |-> PosText(i),
         driver             |-> row.driver,
         race_points        |-> PointsCell(row.race_points, row.trust_level),
         pole_points        |-> CountCell(row.pole_points),
         fastest_lap_points |-> CountCell(row.fastest_lap_points),
         points_bonus       |-> BonusCell(row.points_bonus),
         points_dropped     |-> DroppedCell(row.points_dropped),
         total_points       |-> PointsCell(row.total_points, row.trust_level),
         guests_beaten      |-> CountCell(row.guests_beaten),
         beaten_by_guests   |-> CountCell(row.beaten_by_guests)]

\* The leaderboard of a competition page: the table, or the warning
\* "results not yet calculated" when the frame is empty.
CompetitionLeaderboard(title, competition_id) ==
    /\ \E s \in OrderedBy(SetToBag(CompetitionRows(competition_id)), CompetitionOrder) :
          LET results_df == safe_sql_query(s)
          IN  /\ results' = [q              |-> title,
                             competition_id |-> competition_id,
                             rows           |-> results_df,
                             shown          |-> IF results_df # <<>> THEN "table"
                                                ELSE "warning",
                             display        |-> [i \in DOMAIN results_df |->
                                                   ResultsDisplayRow(results_df, i)]]
              /\ call_log' = Logged(CompetitionRows(competition_id), results_df)
    /\ \E listed \in CompetitionSessionLists(competition_id), ord \in ResultOrders :
          sessions_view' = [q |-> title, competition_id |-> competition_id,
                            sessions |-> SessionBlocks(listed, ord)]
    /\ connections' \in LeftOpen
    /\ UNCHANGED <<db_ok, leagueVars, competition_standings, lapVars, champVars,
                   session_results, catalog, selector>>

show_competition_details(competition_id) ==
    CompetitionLeaderboard("competition_details", competition_id)

show_4fun_competition_details(competition_id) ==
    CompetitionLeaderboard("4fun_competition_details", competition_id)

NextCompetitionPage ==
    \/ StoreCompetitionResult
    \/ \E c \in CompetitionIds : show_competition_details(c)
    \/ \E c \in CompetitionIds : show_4fun_competition_details(c)

SpecCompetitionPage == Init /\ [][NextCompetitionPage]_vars

----------------------------------------------------------------------------
(* Claims about the rendered competition leaderboard *)

LeaderboardShown ==
    results.q \in {"competition_details", "4fun_competition_details"}

DisplayRows == IF LeaderboardShown THEN DOMAIN results.rows ELSE {}

\* C12: a row with total_points = 0 (and likewise race_points = 0) is
\* rendered "0.0" when the driver's trust_level > 0 and "-" when it is 0, so
\* the zero of a registered driver and the zero of a guest never look alike.
C12_ZeroOfMemberAndGuestDiffer ==
    /\ \A i \in DisplayRows :
          /\ results.rows[i].total_points = Some(0) =>
                results.display[i].total_points =
                    (IF results.rows[i].trust_level > 0 THEN ZeroText ELSE Dash)
          /\ results.rows[i].race_points = Some(0) =>
                results.display[i].race_points =
                    (IF results.rows[i].trust_level > 0 THEN ZeroText ELSE Dash)
    /\ \A i, j \in DisplayRows :
          (results.rows[i].trust_level > 0 /\ results.rows[j].trust_level = 0) =>
              /\ (results.rows[i].total_points = Some(0)
                    /\ results.rows[j].total_points = Some(0))
                    => results.display[i].total_points # results.display[j].total_points
              /\ (results.rows[i].race_points = Some(0)
                    /\ results.rows[j].race_points = Some(0))
                    => results.display[i].race_points # results.display[j].race_points

\* A table with a registered driver and a guest who both scored 0 total and
\* 0 race points, shown as "0.0" and as "-".
C12_Witness ==
    /\ LeaderboardShown
    /\ \E i, j \in DisplayRows :
          /\ results.rows[i].trust_level > 0 /\ results.rows[j].trust_level = 0
          /\ results.rows[i].total_points = Some(0) /\ results.rows[j].total_points = Some(0)
          /\ results.rows[i].race_points = Some(0) /\ results.rows[j].race_points = Some(0)
          /\ results.display[i].total_points = ZeroText
          /\ results.display[j].total_points = Dash
          /\ results.display[i].race_points = ZeroText
          /\ results.display[j].race_points = Dash

\* C13: a row without race_points (or without total_points) is rendered
\* differently from every row whose race_points (total_points) is an
\* explicit 0, for registered drivers and guests alike.
C13_NullDistinctFromZero ==
    \A i, j \in DisplayRows :
        /\ (results.rows[i].race_points = NULL /\ results.rows[j].race_points = Some(0))
              => results.display[i].race_points # results.display[j].race_points
        /\ (results.rows[i].total_points = NULL /\ results.rows[j].total_points = Some(0))
              => results.display[i].total_points # results.display[j].total_points

\* C14: in every row of a guest (trust_level = 0) the G+ and G- cells show
\* "-", whatever guests_beaten and beaten_by_guests hold.
C14_GuestHasNoGuestCounts ==
    \A i \in DisplayRows :
        results.rows[i].trust_level = 0 =>
            /\ results.display[i].guests_beaten = Dash
            /\ results.display[i].beaten_by_guests = Dash

----------------------------------------------------------------------------
(* format_lap_time on its own *)

\* Lap times to format: nothing, the values around 0, around both ends of
\* the window and around a full minute, and values spread over the window.
LapTimeInputs ==
    {NULL} \cup {Some(t) : t \in (-2..2) \cup (29995..30005) \cup (59995..60005)
                                 \cup (3599995..3600005)
                                 \cup {30000 + k * 61007 : k \in 0..58}}

InitFormat ==
    /\ db_ok = TRUE
    /\ laps = EmptyBag
    /\ view \in {[q |-> "lap_time", lap_time_ms |-> t] : t \in LapTimeInputs}
    /\ NoCompetition
    /\ NoChampionship
    /\ NoLeague
    /\ NoReports

FormatLapTime ==
    /\ view.q = "lap_time"
    /\ view' = [q |-> "lap_time_text", lap_time_ms |-> view.lap_time_ms,
                text |-> format_lap_time(view.lap_time_ms)]
    /\ UNCHANGED <<reportVars, db_ok, laps, compVars, champVars, leagueVars>>

NextFormat == FormatLapTime

SpecFormat == InitFormat /\ [][NextFormat]_vars

\* M:SS.mmm written out digit by digit.
ClockText(M, SS, mmm) ==
    Decimal(M) \o <<":", Digit(SS \div 10), Digit(SS % 10), ".",
                    Digit(mmm \div 100), Digit((mmm \div 10) % 10), Digit(mmm % 10)>>

\* C22: format_lap_time returns "N/A" exactly for no value, a value <= 0, a
\* value < 30 000 or a value > 3 600 000, and for every other t the text
\* M:SS.mmm with M = t div 60000, SS = (t mod 60000) div 1000 on two digits
\* and mmm = t mod 1000 on three digits; 30 000 and 3 600 000 are formatted.
C22_LapTimeText ==
    view.q = "lap_time_text" =>
        LET t == view.lap_time_ms
        IN  IF t = NULL \/ Val(t) <= 0 \/ Val(t) < 30000 \/ Val(t) > 3600000
            THEN view.text = [kind |-> "N/A"]
            ELSE /\ view.text.kind = "time"
                 /\ view.text.text = ClockText(Val(t) \div 60000,
                                               (Val(t) % 60000) \div 1000,
                                               Val(t) % 1000)

\* 3 600 000 ms formatted as 60:00.000.
C22_Witness ==
    /\ view.q = "lap_time_text"
    /\ view.lap_time_ms = Some(3600000)
    /\ view.text = [kind |-> "time", text |-> <<"6", "0", ":", "0", "0", ".", "0", "0", "0">>]

----------------------------------------------------------------------------
(* The same query run again on unchanged data *)

\* The scorer stores the row of a driver of competition 1 who scored
\* nothing or 5 race points and 10 in total; Rossi and Verdi have the same
\* trust_level.
StoreTiedStanding ==
    /\ Cardinality(competition_standings) < MaxCompRows
    /\ \E d \in DriverIds, sp \in {[race_points |-> Some(0), total_points |-> Some(0)],
                                  [race_points |-> Some(5), total_points |-> Some(10)]} :
          /\ ~\E r \in competition_standings : r.competition_id = 1 /\ r.driver_id = d
          /\ competition_standings' = competition_standings \cup
                {[competition_id |-> 1, driver_id |-> d, race_points |-> sp.race_points,
                  pole_points |-> NULL, fastest_lap_points |-> NULL, points_bonus |-> NULL,
                  points_dropped |-> NULL, total_points |-> sp.total_points,
                  guests_beaten |-> NULL, beaten_by_guests |-> NULL]}
    /\ results' = [q |-> "none"]
    /\ sessions_view' = [q |-> "none"]
    /\ UNCHANGED <<db_ok, leagueVars, call_log, lapVars, champVars, session_results,
                   catalog, selector, connections>>

NextRepeat ==
    \/ StoreTiedStanding
    \/ \E c \in CompetitionIds : get_competition_results(c)
    \/ \E c \in CompetitionIds : show_competition_details(c)

SpecRepeat == Init /\ [][NextRepeat]_vars

\* C21: get_competition_results run twice on unchanged data returns the
\* same rows in the same order, and the competition page gives every driver
\* the same Pos, also for rows that tie on total_points, race_points and
\* trust_level.
C21_SameOutputOnUnchangedData ==
    [][(/\ competition_standings' = competition_standings
        /\ results.q \in {"competition_results", "competition_details"}
        /\ results'.q = results.q
        /\ results'.competition_id = results.competition_id)
          => results' = results]_vars

----------------------------------------------------------------------------
(* show_sessions_report *)

\* The dates the two date inputs can hold.
Days == 0 .. 2

\* WHERE DATE(s.session_date) >= ? AND DATE(s.session_date) < ?, the second
\* parameter being date_to + timedelta(days=1)
InDateRange(s, date_from, date_to) ==
    /\ DATE(sessions[s].session_date) >= date_from
    /\ DATE(sessions[s].session_date) < date_to + 1

SessionsInRange(date_from, date_to) ==
    {s \in SessionIds : InDateRange(s, date_from, date_to)}

\* The tracks the "most used track" query can return: GROUP BY track_name
\* ORDER BY session_count DESC LIMIT 1, or "N/A" without a row.
MostUsedTracks(date_from, date_to) ==
    LET in_range == SessionsInRange(date_from, date_to)
        session_count(t) == Cardinality({s \in in_range : sessions[s].track_name = t})
        used == {sessions[s].track_name : s \in in_range}
    IN  IF used = {} THEN {"N/A"}
        ELSE {t \in used : \A u \in used : session_count(u) <= session_count(t)}

\* get_sessions_statistics: the dictionary of the period, or {} (NULL) when
\* a query raised.
get_sessions_statistics(date_from, date_to, most_used_track) ==
    LET in_range == SessionsInRange(date_from, date_to)
    IN  IF ~db_ok THEN NULL
        ELSE Some([total_sessions        |-> Cardinality(in_range),
                   official_sessions     |->
                       Cardinality({s \in in_range : sessions[s].competition_id # NULL}),
                   non_official_sessions |->
                       Cardinality({s \in in_range : sessions[s].competition_id = NULL}),
                   unique_drivers        |->
                       Cardinality({sr.driver_id : sr \in
                           {x \in session_results : x.session_id \in in_range}}),
                   most_used_track       |-> most_used_track])

\* get_sessions_list_with_details: one row per session of the period (the
\* fastest subquery is grouped by session), ORDER BY s.session_date DESC.
get_sessions_list_with_details(date_from, date_to) ==
    LET S == SessionsInRange(date_from, date_to)
        listed == [i \in 1 .. Cardinality(S) |->
                     CHOOSE s \in S :
                         Cardinality({x \in S : sessions[x].session_date
                                                  > sessions[s].session_date}) = i - 1]
        laps_of(s) == {Val(sr.best_lap) : sr \in
                          {x \in session_results :
                              x.session_id = s /\ x.best_lap # NULL /\ Val(x.best_lap) > 0}}
    IN  safe_sql_query([i \in DOMAIN listed |->
                          [session_id     |-> listed[i],
                           track_name     |-> sessions[listed[i]].track_name,
                           session_date   |-> sessions[listed[i]].session_date,
                           competition_id |-> sessions[listed[i]].competition_id,
                           fastest_time   |-> IF laps_of(listed[i]) = {} THEN NULL
                                              ELSE Some(Min(laps_of(listed[i])))]])

\* show_daily_participation_chart: FROM sessions s JOIN session_results sr
\* JOIN drivers d WHERE the date range GROUP BY DATE(s.session_date)
\* ORDER BY session_day ASC.
show_daily_participation_chart(date_from, date_to) ==
    LET joined == {sr \in session_results : InDateRange(sr.session_id, date_from, date_to)}
        day(sr) == DATE(sessions[sr.session_id].session_date)
        days == {day(sr) : sr \in joined}
        row(d) ==
            [session_day             |-> d,
             registered_participants |->
                 Cardinality({sr.driver_id : sr \in
                     {x \in joined : day(x) = d /\ drivers[x.driver_id].trust_level > 0}}),
             guest_participants      |->
                 Cardinality({sr.driver_id : sr \in
                     {x \in joined : day(x) = d /\ drivers[x.driver_id].trust_level = 0}}),
             total_sessions          |->
                 Cardinality({sr.session_id : sr \in {x \in joined : day(x) = d}})]
    IN  IF ~db_ok THEN <<>>
        ELSE [i \in 1 .. Cardinality(days) |->
                row(CHOOSE d \in days : Cardinality({e \in days : e < d}) = i - 1)]

\* What the page shows for the two dates and the option chosen in the
\* session selectbox (0: "General Summary", the default).
\* any(sessions_stats.values()): some value of the dictionary is truthy (a
\* non-zero count, a non-empty text).
SessionsReport(date_from, date_to, selection, most_used_track, ord) ==
    LET sessions_stats == get_sessions_statistics(date_from, date_to, most_used_track)
        AnyStatistics ==
            /\ sessions_stats # NULL
            /\ \/ Val(sessions_stats).total_sessions # 0
               \/ Val(sessions_stats).unique_drivers # 0
               \/ Val(sessions_stats).most_used_track # ""
        sessions_list == get_sessions_list_with_details(date_from, date_to)
        blank == [q |-> "sessions_report", date_from |-> date_from, date_to |-> date_to,
                  shown |-> "error", called |-> {}, sessions_stats |-> NULL,
                  sessions_list |-> <<>>, chart |-> <<>>, details |-> NULL]
    IN  IF date_from > date_to THEN blank
        ELSE IF ~AnyStatistics
        THEN [blank EXCEPT !.shown = "warning", !.called = {"get_sessions_statistics"},
                           !.sessions_stats = sessions_stats]
        ELSE IF sessions_list = <<>>
        THEN [blank EXCEPT !.shown = "warning",
                           !.called = {"get_sessions_statistics",
                                       "get_sessions_list_with_details"},
                           !.sessions_stats = sessions_stats]
        ELSE IF selection = 0
        THEN [blank EXCEPT !.shown = "summary",
                           !.called = {"get_sessions_statistics",
                                       "get_sessions_list_with_details",
                                       "show_daily_participation_chart"},
                           !.sessions_stats = sessions_stats,
                           !.sessions_list = sessions_list,
                           !.chart = show_daily_participation_chart(date_from, date_to)]
        ELSE [blank EXCEPT !.shown = "session",
                           !.called = {"get_sessions_statistics",
                                       "get_sessions_list_with_details",
                                       "show_session_details"},
                           !.sessions_stats = sessions_stats,
                           !.sessions_list = sessions_list,
                           !.details = Some(SessionDetails(selection, ord))]

show_sessions_report(date_from, date_to, selection) ==
    /\ \/ selection = 0
       \/ /\ date_from <= date_to
          /\ db_ok
          /\ selection \in SessionsInRange(date_from, date_to)
    /\ \E most_used_track \in MostUsedTracks(date_from, date_to), ord \in ResultOrders :
          sessions_view' =
              SessionsReport(date_from, date_to, selection, most_used_track, ord)
    /\ connections' \in LeftOpen
    /\ UNCHANGED <<db_ok, lapVars, compVars, champVars, leagueVars, session_results,
                   catalog, selector>>

NextSessions ==
    \/ StoreSessionResult
    \/ \E date_from \in Days, date_to \in Days, selection \in {0} \cup SessionIds :
          show_sessions_report(date_from, date_to, selection)

SpecSessions == Init /\ [][NextSessions]_vars

NextSessionTables ==
    \/ StoreSessionResult
    \/ \E s \in SessionIds : get_session_results(s)
    \/ \E s \in SessionIds : show_session_details(s)
    \/ \E c \in CompetitionIds : get_competition_sessions(c)
    \/ \E c \in CompetitionIds : show_competition_details(c)
    \/ \E c \in CompetitionIds : show_4fun_competition_details(c)

SpecSessionTables == Init /\ [][NextSessionTables]_vars

----------------------------------------------------------------------------
(* Claims about the session pages *)

\* The sessions whose day lies between the two dates, both included.
InPeriod(date_from, date_to) ==
    {s \in SessionIds : date_from <= DATE(sessions[s].session_date)
                        /\ DATE(sessions[s].session_date) <= date_to}

\* The number of sessions the daily chart draws for day d.
ChartSessions(d) ==
    LET at == {i \in DOMAIN sessions_view.chart : sessions_view.chart[i].session_day = d}
    IN  IF at = {} THEN 0 ELSE sessions_view.chart[CHOOSE i \in at : TRUE].total_sessions

\* C25: the sessions report rejects date_from > date_to without running a
\* query; otherwise the period statistics count, the session list holds and
\* the daily participation chart draws exactly the sessions with
\* date_from <= DATE(session_date) <= date_to.
C25_SessionsOfThePeriod ==
    sessions_view.q = "sessions_report" =>
        LET period == InPeriod(sessions_view.date_from, sessions_view.date_to)
        IN  IF sessions_view.date_from > sessions_view.date_to
            THEN sessions_view.shown = "error" /\ sessions_view.called = {}
            ELSE /\ Val(sessions_view.sessions_stats).total_sessions = Cardinality(period)
                 /\ sessions_view.shown \in {"summary", "session"} =>
                       {sessions_view.sessions_list[i].session_id :
                           i \in DOMAIN sessions_view.sessions_list} = period
                 /\ sessions_view.shown = "summary" =>
                       \A d \in Days :
                           ChartSessions(d) =
                               Cardinality({s \in period : DATE(sessions[s].session_date) = d})

\* C28: get_competition_sessions returns every session of the competition
\* exactly once, and the competition page shows it once, also when several
\* non-spectator drivers share the session's best lap.
C28_EachSessionOnce ==
    sessions_view.q \in {"competition_sessions", "competition_details",
                         "4fun_competition_details"} =>
        \A s \in SessionIds :
            sessions[s].competition_id = Some(sessions_view.competition_id) =>
                Cardinality({i \in DOMAIN sessions_view.sessions :
                                sessions_view.sessions[i].session_id = s}) = 1

\* The session tables on the page just rendered.
TablesShown ==
    IF sessions_view.q \in {"competition_details", "4fun_competition_details"}
    THEN {[session_id |-> sessions_view.sessions[i].session_id,
           table |-> sessions_view.sessions[i].table] : i \in DOMAIN sessions_view.sessions}
    ELSE IF sessions_view.q = "session_details"
    THEN {[session_id |-> sessions_view.details.session_id,
           table |-> sessions_view.details.table]}
    ELSE {}

\* C29: in every session result table a classified driver with a positive
\* total_time has it shown as a clock time, never as "N/A", also when the
\* total is above 60 minutes.
C29_TotalTimeShownAsClock ==
    \A t \in TablesShown :
        \A sr \in session_results :
            (/\ sr.session_id = t.session_id
             /\ sr.position # NULL
             /\ sr.total_time # NULL
             /\ Val(sr.total_time) > 0)
            => \E i \in DOMAIN t.table :
                  /\ t.table[i].driver = drivers[sr.driver_id].last_name
                  /\ t.table[i].total_time.kind = "time"

----------------------------------------------------------------------------
(* get_championship_standings *)

MaxPenalties == 2
MaxRounds == 3
MaxDrop == 2

ChampionshipIds == {1, 2}
StandingDrivers == {1, 2}

\* SUM(CASE WHEN mp.is_active = 1 THEN mp.penalty_points ELSE 0 END) over a
\* set S of rows of manual_penalties, each counted as often as it is stored.
RECURSIVE SumPenalties(_)
SumPenalties(S) ==
    IF S = {} THEN 0
    ELSE LET mp == CHOOSE x \in S : TRUE
         IN  (IF mp.is_active = 1 THEN mp.penalty_points ELSE 0) * CopiesIn(mp, manual_penalties)
             + SumPenalties(S \ {mp})

\* LEFT JOIN manual_penalties mp ON cs.championship_id = mp.championship_id
\*   AND cs.driver_id = mp.driver_id AND mp.is_active = 1
PenaltyJoinByDriver(cs) ==
    {mp \in BagToSet(manual_penalties) :
        /\ mp.driver_id = cs.driver_id
        /\ mp.is_active = 1}

PenaltyJoin(cs) ==
    {mp \in BagToSet(manual_penalties) :
        /\ mp.championship_id = cs.championship_id
        /\ mp.driver_id = cs.driver_id
        /\ mp.is_active = 1}

\* COALESCE(SUM(...), 0) as manual_penalties
ManualPenalties(cs) == SumPenalties(PenaltyJoin(cs))

ChampionshipRow(cs) ==
    [position                  |-> cs.position,
     driver                    |-> drivers[cs.driver_id].last_name,
     total_points              |-> cs.total_points,
     competitions_participated |-> cs.competitions_participated,
     points_dropped            |-> cs.points_dropped,
     base_points               |-> cs.base_points,
     participation_multiplier  |-> cs.participation_multiplier,
     participation_bonus       |-> cs.participation_bonus,
     manual_penalties          |-> ManualPenalties(cs)]

\* ORDER BY cs.position
ByPosition(a, b) == a.position < b.position

\* WHERE cs.championship_id = ? GROUP BY cs.championship_id, cs.driver_id, ...
ChampionshipRows(championship_id) ==
    {ChampionshipRow(cs) :
        cs \in {x \in championship_standings :
                   x.championship_id = championship_id /\ x.driver_id \in DriverIds}}

get_championship_standings(championship_id) ==
    /\ \E s \in OrderedBy(SetToBag(ChampionshipRows(championship_id)), ByPosition) :
          standings' = [q |-> "championship_standings", championship_id |-> championship_id,
                        rows |-> safe_sql_query(s)]
    /\ page' = [shown |-> "none"]
    /\ UNCHANGED <<reportVars, db_ok, leagueVars, championship_standings, manual_penalties, total_rounds,
                   competitions, lapVars, compVars>>

----------------------------------------------------------------------------
(* The standings calculator and the league admins write the tables *)

\* total_points = base_points x multiplier + bonus - active manual penalties
AdjustedTotal(cs) ==
    cs.base_points * cs.participation_multiplier + cs.participation_bonus
        - ManualPenalties(cs)

HasStanding(c, d) ==
    \E cs \in championship_standings : cs.championship_id = c /\ cs.driver_id = d

\* The calculator stores the standing of a driver who raced one round.
StoreStanding ==
    /\ \E c \in ChampionshipIds, d \in StandingDrivers, m \in {1, 2}, b \in {0, 3} :
          /\ ~HasStanding(c, d)
          /\ LET cs == [championship_id |-> c, driver_id |-> d, position |-> d,
                        competitions_participated |-> 1, points_dropped |-> Some(0),
                        base_points |-> 10, participation_multiplier |-> m,
                        participation_bonus |-> b, total_points |-> 0]
             IN  championship_standings' = championship_standings \cup
                    {[cs EXCEPT !.total_points = AdjustedTotal(cs)]}
    /\ standings' = [q |-> "none"]
    /\ page' = [shown |-> "none"]
    /\ UNCHANGED <<reportVars, db_ok, leagueVars, manual_penalties, total_rounds, competitions, lapVars, compVars>>

\* The calculator recomputes the stored total of one standing.
Recompute ==
    /\ \E cs \in championship_standings :
          /\ cs.total_points # AdjustedTotal(cs)
          /\ championship_standings' = (championship_standings \ {cs}) \cup
                {[cs EXCEPT !.total_points = AdjustedTotal(cs)]}
    /\ standings' = [q |-> "none"]
    /\ page' = [shown |-> "none"]
    /\ UNCHANGED <<reportVars, db_ok, leagueVars, manual_penalties, total_rounds, competitions, lapVars, compVars>>

PenaltyRows == [championship_id : ChampionshipIds, driver_id : StandingDrivers,
                penalty_points : {5}, is_active : {0, 1}]

\* An admin adds a manual penalty, active or not.
AddPenalty ==
    /\ BagCardinality(manual_penalties) < MaxPenalties
    /\ \E mp \in PenaltyRows : manual_penalties' = manual_penalties (+) SetToBag({mp})
    /\ standings' = [q |-> "none"]
    /\ page' = [shown |-> "none"]
    /\ UNCHANGED <<reportVars, db_ok, leagueVars, championship_standings, total_rounds, competitions, lapVars, compVars>>

\* An admin activates or deactivates a manual penalty.
SetPenaltyActive ==
    /\ \E mp \in BagToSet(manual_penalties) :
          manual_penalties' = (manual_penalties (-) SetToBag({mp}))
                                (+) SetToBag({[mp EXCEPT !.is_active = 1 - mp.is_active]})
    /\ standings' = [q |-> "none"]
    /\ page' = [shown |-> "none"]
    /\ UNCHANGED <<reportVars, db_ok, leagueVars, championship_standings, total_rounds, competitions, lapVars, compVars>>

NextPenalties ==
    \/ StoreStanding
    \/ Recompute
    \/ AddPenalty
    \/ SetPenaltyActive
    \/ \E c \in ChampionshipIds : get_championship_standings(c)

SpecPenalties == Init /\ [][NextPenalties]_vars

StandingRows == IF standings.q = "championship_standings" THEN standings.rows ELSE <<>>

\* C5: in every row get_championship_standings returns, total_points =
\* base_points x participation_multiplier + participation_bonus -
\* manual_penalties, manual_penalties being the sum of the penalties that are
\* active now.
C5_TotalIsAdjustedBaseMinusPenalties ==
    \A i \in DOMAIN StandingRows :
        LET r == StandingRows[i]
        IN  r.total_points = r.base_points * r.participation_multiplier
                                + r.participation_bonus - r.manual_penalties

\* The points of the entries of manual_penalties in a set S, each entry
\* counted as often as it is stored.
RECURSIVE PenaltyPoints(_)
PenaltyPoints(S) ==
    IF S = {} THEN 0
    ELSE LET mp == CHOOSE x \in S : TRUE
         IN  mp.penalty_points * CopiesIn(mp, manual_penalties) + PenaltyPoints(S \ {mp})

\* C23: get_championship_standings returns exactly one row per standing of
\* the championship, whatever the number of manual penalty entries, and the
\* row's manual_penalties is the sum of penalty_points over the driver's
\* entries with is_active = 1 in that championship: inactive entries and
\* entries of other championships or drivers do not count.
C23_OneRowAndActivePenaltySum ==
    standings.q = "championship_standings" =>
        \A d \in DriverIds :
            LET rows == {i \in DOMAIN standings.rows :
                            standings.rows[i].driver = drivers[d].last_name}
                own  == {mp \in BagToSet(manual_penalties) :
                            /\ mp.championship_id = standings.championship_id
                            /\ mp.driver_id = d
                            /\ mp.is_active = 1}
            IN  /\ Cardinality(rows) =
                      (IF HasStanding(standings.championship_id, d) THEN 1 ELSE 0)
                /\ \A i \in rows : standings.rows[i].manual_penalties = PenaltyPoints(own)

\* A driver with two active penalties in championship 1 has one row there,
\* with manual_penalties 10; or a driver whose only active penalty is in the
\* other championship has a row with manual_penalties 0.
C23_Witness ==
    /\ standings.q = "championship_standings"
    /\ standings.championship_id = 1
    /\ \E i \in DOMAIN standings.rows :
          \/ standings.rows[i].manual_penalties = 10
          \/ /\ standings.rows[i].manual_penalties = 0
             /\ \E mp \in BagToSet(manual_penalties) :
                   /\ drivers[mp.driver_id].last_name = standings.rows[i].driver
                   /\ mp.championship_id = 2
                   /\ mp.is_active = 1

----------------------------------------------------------------------------
(* show_championships_report: the championship leaderboard *)

\* The calculator stores the season standing of a driver of championship 1:
\* the rounds raced and the points dropped.
StoreSeasonStanding ==
    /\ \E d \in StandingDrivers, n \in 0..MaxRounds, pd \in {NULL, Some(0), Some(5)} :
          /\ ~HasStanding(1, d)
          /\ championship_standings' = championship_standings \cup
                {[championship_id |-> 1, driver_id |-> d, position |-> d,
                  competitions_participated |-> n, points_dropped |-> pd,
                  base_points |-> 10, participation_multiplier |-> 1,
                  participation_bonus |-> 0, total_points |-> 10]}
    /\ standings' = [q |-> "none"]
    /\ page' = [shown |-> "none"]
    /\ UNCHANGED <<reportVars, db_ok, leagueVars, manual_penalties, total_rounds, competitions, lapVars, compVars>>

\* An admin sets championships.total_rounds.
SetTotalRounds ==
    /\ \E n \in 0..MaxRounds : total_rounds' = Some(n)
    /\ total_rounds' # total_rounds
    /\ standings' = [q |-> "none"]
    /\ page' = [shown |-> "none"]
    /\ UNCHANGED <<reportVars, db_ok, leagueVars, championship_standings, manual_penalties, competitions,
                   lapVars, compVars>>

\* An admin adds a competition to championship 1: its points system has
\* drop_worst_results = n, or there is no points_systems row for it (NULL).
AddCompetition ==
    /\ \E ps \in {NULL} \cup {Some(n) : n \in 0..MaxDrop} :
          /\ ps \notin competitions
          /\ competitions' = competitions \cup {ps}
    /\ standings' = [q |-> "none"]
    /\ page' = [shown |-> "none"]
    /\ UNCHANGED <<reportVars, db_ok, leagueVars, championship_standings, manual_penalties, total_rounds,
                   lapVars, compVars>>

\* SELECT COALESCE(ps.drop_worst_results, 0), ch.total_rounds FROM competitions c
\* LEFT JOIN points_systems ps ... WHERE c.championship_id = ? LIMIT 1, then
\* drop_worst = result[0] if result else 0
\* total_rounds = result[1] if result and result[1] else 0
Coalesce(x, dflt) == IF x = NULL THEN dflt ELSE Val(x)
DropWorstChoices == IF competitions = {} THEN {0} ELSE {Coalesce(ps, 0) : ps \in competitions}
TotalRoundsUsed == IF competitions = {} THEN 0 ELSE Coalesce(total_rounds, 0)

\* counted_races = max(0, total_rounds - drop_worst) if total_rounds > 0 else 0
CountedRacesNoFloor(rounds, drop_worst) ==
    IF rounds > 0 THEN rounds - drop_worst ELSE 0

CountedRaces(rounds, drop_worst) ==
    IF rounds > 0 THEN Max({0, rounds - drop_worst}) ELSE 0

\* format_dropped_points
FormatDroppedAtCounted(row, counted_races) ==
    IF NotNaPositive(row.points_dropped) THEN MinusFixed1(Val(row.points_dropped))
    ELSE IF counted_races > 0 /\ row.competitions_participated >= counted_races THEN ZeroText
    ELSE Dash

format_dropped_points(row, counted_races) ==
    IF NotNaPositive(row.points_dropped) THEN MinusFixed1(Val(row.points_dropped))
    ELSE IF counted_races > 0 /\ row.competitions_participated > counted_races THEN ZeroText
    ELSE Dash

\* One row of standings_display.
StandingsDisplayRow(row, counted_races) ==
    [Pos                       |-> PosText(row.position),
     driver                    |-> row.driver,
     competitions_participated |-> IF row.competitions_participated > 0
                                   THEN IntText(row.competitions_participated) ELSE Dash,
     points_dropped            |-> format_dropped_points(row, counted_races),
     base_points               |-> Fixed1(row.base_points),
     participation_multiplier  |-> IF row.participation_multiplier # 1
                                   THEN Fixed2(row.participation_multiplier) ELSE Dash,
     participation_bonus       |-> IF row.participation_bonus > 0
                                   THEN PlusFixed1(row.participation_bonus) ELSE Dash,
     manual_penalties          |-> IF row.manual_penalties > 0
                                   THEN MinusFixed0(row.manual_penalties) ELSE Dash,
     total_points              |-> Fixed1(row.total_points)]

\* The leaderboard part of show_championships_report for championship 1.
show_championships_report ==
    /\ \E s \in OrderedBy(SetToBag(ChampionshipRows(1)), ByPosition) :
          LET standings_df == safe_sql_query(s)
          IN  /\ standings' = [q |-> "championship_standings", championship_id |-> 1,
                               rows |-> standings_df]
              /\ \/ /\ standings_df = <<>>
                    /\ page' = [shown |-> "warning"]
                 \/ /\ standings_df # <<>>
                    /\ \E drop_worst \in DropWorstChoices :
                          LET counted_races == CountedRaces(TotalRoundsUsed, drop_worst)
                          IN  page' = [shown         |-> "table",
                                       drop_worst    |-> drop_worst,
                                       total_rounds  |-> TotalRoundsUsed,
                                       counted_races |-> counted_races,
                                       rows |-> [i \in DOMAIN standings_df |->
                                                   StandingsDisplayRow(standings_df[i],
                                                                       counted_races)]]
    /\ UNCHANGED <<reportVars, db_ok, leagueVars, championship_standings, manual_penalties, total_rounds,
                   competitions, lapVars, compVars>>

NextLeaderboard ==
    \/ StoreSeasonStanding
    \/ SetTotalRounds
    \/ AddCompetition
    \/ show_championships_report

SpecLeaderboard == Init /\ [][NextLeaderboard]_vars

----------------------------------------------------------------------------
(* Claims about the championship leaderboard *)

TableShown == page.shown = "table"

\* C6 as the specification states it, for a championship that has
\* competitions and a positive total_rounds: the number of counted rounds
\* used for a driver's row is competitions_participated - drop_worst_results,
\* floored at 0.
C6_CountedFromParticipation ==
    (TableShown /\ competitions # {} /\ total_rounds # NULL /\ total_rounds # Some(0)) =>
        \A i \in DOMAIN standings.rows :
            page.counted_races =
                Max({0, standings.rows[i].competitions_participated - page.drop_worst})

\* C6 as amended: the number of counted rounds is the same for every row of
\* a championship: total_rounds minus the drop_worst_results of the points
\* system of one of its competitions (0 when it has none), floored at 0, and
\* 0 when the championship has no competition or no positive total_rounds.
C6_CountedFromTotalRounds ==
    TableShown =>
        \/ /\ competitions = {} \/ total_rounds = NULL \/ total_rounds = Some(0)
           /\ page.counted_races = 0
        \/ /\ competitions # {} /\ total_rounds # NULL /\ total_rounds # Some(0)
           /\ \E ps \in competitions :
                 LET n == IF ps = NULL THEN 0 ELSE Val(ps)
                 IN  page.counted_races =
                        (IF Val(total_rounds) >= n THEN Val(total_rounds) - n ELSE 0)

\* A table for total_rounds = 3 and drop_worst_results = 1 with a driver who
\* raced one round, and a table in which the floor at 0 applies.
C6_Witness ==
    /\ TableShown
    /\ total_rounds = Some(3)
    /\ page.drop_worst = 1
    /\ page.counted_races = 2
    /\ \E i \in DOMAIN standings.rows : standings.rows[i].competitions_participated = 1

C9_ZeroCountedRoundsRejected ==
    ~(/\ TableShown
      /\ competitions # {}
      /\ total_rounds # NULL
      /\ Val(total_rounds) > 0
      /\ page.drop_worst >= Val(total_rounds))

----------------------------------------------------------------------------
(* show_leagues_report: the league standings *)

MaxLeagueRows == 2

\* leagues: a league of two tiers and a league of five.
leagues == <<
    [name |-> "Lega A", total_tiers |-> 2],
    [name |-> "Lega B", total_tiers |-> 5] >>

LeagueIds == DOMAIN leagues

\* The tier columns the standings query selects: tier1_points .. tier4_points.
TierColumns == 4

\* Points of a driver in tier k: none (did not take part), 0, some.
TierPoints(k) == IF k <= 2 THEN {NULL, Some(0), Some(10)} ELSE {NULL, Some(10)}

\* The per-tier points a driver of a league can have.
TierScores(league_id) ==
    {tp \in [1..leagues[league_id].total_tiers -> {NULL, Some(0), Some(10)}] :
        \A k \in DOMAIN tp : tp[k] \in TierPoints(k)}

RECURSIVE SumTiers(_)
SumTiers(tp) ==
    IF tp = <<>> THEN 0
    ELSE (IF Head(tp) = NULL THEN 0 ELSE Val(Head(tp))) + SumTiers(Tail(tp))

TiersParticipated(tp) == Cardinality({k \in DOMAIN tp : tp[k] # NULL})

\* No consistency bonus with fewer than two tiers; else a bonus that
\* depends on how even the tier scores are.
ConsistencyBonus(tp) == IF TiersParticipated(tp) < 2 THEN {0} ELSE {0, 3}

\* The league aggregator stores the row of a driver.
StoreLeagueStanding ==
    /\ Cardinality(league_standings) < MaxLeagueRows
    /\ \E league_id \in LeagueIds, d \in StandingDrivers :
          /\ ~\E ls \in league_standings : ls.league_id = league_id /\ ls.driver_id = d
          /\ \E tp \in TierScores(league_id) :
                \E bonus \in ConsistencyBonus(tp) :
                    league_standings' = league_standings \cup
                        {[league_id          |-> league_id,
                          driver_id          |-> d,
                          position           |-> d,
                          tier_points        |-> tp,
                          total_final_points |-> SumTiers(tp) + bonus,
                          consistency_bonus  |-> bonus,
                          tiers_participated |-> TiersParticipated(tp)]}
    /\ league_page' = [shown |-> "none"]
    /\ UNCHANGED <<reportVars, db_ok, lapVars, compVars, champVars>>

\* ls.tier<k>_points
TierColumn(ls, k) == IF k \in DOMAIN ls.tier_points THEN ls.tier_points[k] ELSE NULL

\* SELECT ls.position, d.last_name as driver, ls.tier1_points, ..., ls.tier4_points,
\*        ls.total_final_points, ls.consistency_bonus, ls.tiers_participated, ...
LeagueRowSwapped(ls) ==
    [position           |-> ls.position,
     driver             |-> drivers[ls.driver_id].last_name,
     tier_points        |-> [k \in 1..TierColumns |-> TierColumn(ls, k)],
     total_final_points |-> ls.consistency_bonus,
     consistency_bonus  |-> ls.total_final_points,
     tiers_participated |-> ls.tiers_participated]

LeagueRow(ls) ==
    [position           |-> ls.position,
     driver             |-> drivers[ls.driver_id].last_name,
     tier_points        |-> [k \in 1..TierColumns |-> TierColumn(ls, k)],
     total_final_points |-> ls.total_final_points,
     consistency_bonus  |-> ls.consistency_bonus,
     tiers_participated |-> ls.tiers_participated]

\* FROM league_standings ls JOIN drivers d ... WHERE ls.league_id = ?
LeagueRows(league_id) ==
    {LeagueRow(ls) : ls \in {x \in league_standings :
                               x.league_id = league_id /\ x.driver_id \in DriverIds}}

\* f"{x:.1f}" if pd.notna(x) else "0.0"
PointsOrZero(x) == IF x # NULL THEN Fixed1(Val(x)) ELSE ZeroText

\* One row of df_display.
LeagueDisplayRow(row) ==
    [Pos       |-> IntText(row.position),
     Driver    |-> row.driver,
     nTiers    |-> IntText(row.tiers_participated),
     TierPts   |-> [k \in DOMAIN row.tier_points |-> PointsOrZero(row.tier_points[k])],
     ConsistPts |-> PointsOrZero(Some(row.consistency_bonus)),
     TotalPts  |-> PointsOrZero(Some(row.total_final_points))]

\* The "League Standings" part of show_leagues_report for the league the
\* user selected: the table, or "No standings available for this league yet".
show_leagues_report(selected_league_id) ==
    /\ \E df_standings \in OrderedBy(SetToBag(LeagueRows(selected_league_id)), ByPosition) :
          league_page' =
              IF ~db_ok THEN [shown |-> "error"]
              ELSE [shown       |-> IF df_standings # <<>> THEN "table" ELSE "info",
                    league_id   |-> selected_league_id,
                    total_tiers |-> leagues[selected_league_id].total_tiers,
                    rows        |-> df_standings,
                    display     |-> [i \in DOMAIN df_standings |->
                                       LeagueDisplayRow(df_standings[i])]]
    /\ UNCHANGED <<reportVars, db_ok, league_standings, lapVars, compVars, champVars>>

NextLeague ==
    \/ StoreLeagueStanding
    \/ \E league_id \in LeagueIds : show_leagues_report(league_id)

SpecLeague == Init /\ [][NextLeague]_vars

----------------------------------------------------------------------------
(* Claims about the league standings *)

LeagueTable == league_page.shown = "table"

LeagueTableRows == IF LeagueTable THEN DOMAIN league_page.rows ELSE {}

\* The stored row a row of the table was read from.
StoredLeagueRow(i) ==
    CHOOSE ls \in league_standings :
        /\ ls.league_id = league_page.league_id
        /\ drivers[ls.driver_id].last_name = league_page.rows[i].driver

C19_NoTierDistinctFromZero ==
    \A i, j \in LeagueTableRows :
        \A k, l \in 1..TierColumns :
            (league_page.rows[i].tier_points[k] = NULL
                /\ k <= league_page.total_tiers
                /\ league_page.rows[j].tier_points[l] = Some(0))
                => league_page.display[i].TierPts[k] # league_page.display[j].TierPts[l]

\* C20: every row of the standings of a league with total_tiers = N has a
\* points column for each of the N tiers.
C20_OneColumnPerTier ==
    \A i \in LeagueTableRows :
        \A k \in 1..league_page.total_tiers : k \in DOMAIN league_page.display[i].TierPts

----------------------------------------------------------------------------
(* A query that fails: the database file is locked, damaged or replaced *)

DatabaseBreaks ==
    /\ db_ok
    /\ db_ok' = FALSE
    /\ UNCHANGED <<reportVars, lapVars, compVars, champVars, leagueVars>>

DatabaseRestored ==
    /\ ~db_ok
    /\ db_ok' = TRUE
    /\ UNCHANGED <<reportVars, lapVars, compVars, champVars, leagueVars>>

NextQueries ==
    \/ StoreCompetitionStanding
    \/ DatabaseBreaks
    \/ DatabaseRestored
    \/ \E c \in CompetitionIds : get_competition_results(c)

SpecQueries == Init /\ [][NextQueries]_vars

\* C10: a query that failed and a query that succeeded and matched no row
\* never hand the caller the same return value.
C10_FailureDistinctFromEmpty ==
    (call_log.failed # NULL /\ call_log.empty # NULL)
        => Val(call_log.failed) # Val(call_log.empty)

----------------------------------------------------------------------------
(* The selectboxes: leagues, tiers, competitions, 4Fun competitions, drivers *)

MaxRecords == 2

\* The columns the selectors read.  parent is league_id of a championship
\* (NULL: a standard championship, not a tier) and championship_id of a
\* competition (NULL: a 4Fun competition); round_number, tier_number and
\* season are NULL throughout.  A driver row has its last name only.
CatalogRows ==
    [table : {"leagues"}, id : 1 .. 2, parent : {NULL}, name : {"A", "B"},
     start_date : {NULL, Some(1), Some(2)}, is_completed : {0, 1}]
    \cup
    [table : {"championships", "competitions"}, id : 1 .. 2, parent : {NULL, Some(1)},
     name : {"A", "B"}, start_date : {NULL, Some(1), Some(2)}, is_completed : {0, 1}]
    \cup
    [table : {"drivers"}, id : 1 .. 2, parent : {NULL}, name : {"A", "B"},
     start_date : {NULL}, is_completed : {0}]

\* An admin or the importer adds a league, a championship, a competition or
\* a driver with laps; the page is rendered again from scratch.
StoreCatalogRow ==
    /\ Cardinality(catalog) < MaxRecords
    /\ \E r \in CatalogRows :
          /\ ~\E x \in catalog : x.table = r.table /\ x.id = r.id
          /\ catalog' = catalog \cup {r}
    /\ selector' = [key |-> "none"]
    /\ UNCHANGED <<db_ok, lapVars, compVars, champVars, leagueVars, session_results,
                   sessions_view, connections>>

\* The lists a selector's query can return.
\* LaterStart:  ORDER BY CASE WHEN start_date IS NULL THEN 1 ELSE 0 END,
\*              start_date DESC
\* RecentFirst: ..., league_id DESC / championship_id DESC / competition_id DESC
\* OpenFirst:   ORDER BY is_completed ASC, ..., start_date DESC, championship_id DESC
\* ByLastName:  ORDER BY LOWER(d.last_name)
\* get_championship_competitions ends its ORDER BY with round_number DESC,
\* which is NULL in every row here, so competitions with equal start dates
\* come in either order.
ListOrders(key) ==
    LET of(table, parent) == SetToBag({r \in catalog : r.table = table /\ r.parent = parent})
        LaterStart(a, b) ==
            \/ a.start_date # NULL /\ b.start_date = NULL
            \/ /\ a.start_date # NULL /\ b.start_date # NULL
               /\ Val(a.start_date) > Val(b.start_date)
        RecentFirst(a, b) ==
            \/ LaterStart(a, b)
            \/ a.start_date = b.start_date /\ a.id > b.id
        OpenFirst(a, b) ==
            \/ a.is_completed < b.is_completed
            \/ a.is_completed = b.is_completed /\ RecentFirst(a, b)
        ByLastName(a, b) == a.name = "A" /\ b.name = "B"
    IN  CASE key = "league_selector" -> OrderedBy(of("leagues", NULL), RecentFirst)
          [] key = "tier_select" -> OrderedBy(of("championships", Some(1)), RecentFirst)
          [] key = "competition_select" -> OrderedBy(of("competitions", Some(1)), LaterStart)
          [] key = "4fun_competition_select" -> OrderedBy(of("competitions", NULL), RecentFirst)
          [] key = "driver_select" -> OrderedBy(of("drivers", NULL), ByLastName)
          [] key = "championships_list" -> OrderedBy(of("championships", NULL), OpenFirst)

\* display_name: the name, the start date where the selector prints it, and
\* the status mark; two display names are equal exactly when the strings are.
DisplayName(r) ==
    [name     |-> r.name,
     date_str |-> IF r.table \in {"championships", "competitions"} THEN r.start_date ELSE NULL,
     status   |-> IF r.table = "drivers" THEN ""
                  ELSE IF r.is_completed = 1 THEN "completed" ELSE "running"]

\* "Select a tier...", "Select a competition...", "General Summary"
Placeholder == [name |-> "placeholder", date_str |-> NULL, status |-> ""]

\* The index the selectbox starts on: the first completed record of the
\* list, else the first record that is not completed; first is the index of
\* the first record's option (1 behind a placeholder, else 0).
DefaultIndexFirstRow(listed, first) == first

DefaultIndex(listed, first) ==
    LET completed == {i \in DOMAIN listed : listed[i].is_completed = 1}
        running == DOMAIN listed \ completed
    IN  IF completed # {} THEN Min(completed) - 1 + first
        ELSE IF running # {} THEN Min(running) - 1 + first
        ELSE first

\* What a selectbox offers and what choosing option pick opens.  The code
\* looks the chosen text up: in the dict filled by map[display_name] = id
\* (the last record with that text) or, for drivers, with
\* next(d for d in drivers if d['last_name'] == selected) (the first one).
Selectbox(key, listed, pick) ==
    LET first == IF key \in {"tier_select", "competition_select", "driver_select"}
                 THEN 1 ELSE 0
        options == (IF first = 1 THEN <<Placeholder>> ELSE <<>>)
                       \o [i \in DOMAIN listed |-> DisplayName(listed[i])]
        same == {i \in DOMAIN listed : DisplayName(listed[i]) = options[pick + 1]}
    IN  [key           |-> key,
         shown         |-> "selectbox",
         options       |-> options,
         listed        |-> [i \in DOMAIN listed |-> listed[i].id],
         default_index |-> IF key \in {"league_selector", "tier_select", "competition_select"}
                           THEN DefaultIndex(listed, first) ELSE 0,
         pick          |-> pick,
         opened        |-> IF pick < first \/ same = {} THEN NULL
                           ELSE IF key = "driver_select" THEN Some(listed[Min(same)].id)
                           ELSE Some(listed[Max(same)].id)]

\* A selector: the list query, then the selectbox with option pick chosen.
\* Without rows there is a warning and no selectbox; when the query raises,
\* the league page shows the error, the other pages get an empty list.
Selector(key, pick) ==
    /\ \E listed \in ListOrders(key) :
          IF db_ok /\ listed # <<>>
          THEN /\ pick <= Len(listed) - (IF key \in {"league_selector",
                                                      "4fun_competition_select"}
                                          THEN 1 ELSE 0)
               /\ selector' = Selectbox(key, listed, pick)
          ELSE /\ pick = 0
               /\ selector' = [key |-> key,
                               shown |-> IF ~db_ok /\ key \in {"league_selector", "tier_select"}
                                         THEN "error" ELSE "warning",
                               options |-> <<>>, listed |-> <<>>, default_index |-> 0,
                               pick |-> 0, opened |-> NULL]
    /\ connections' \in LeftOpen
    /\ UNCHANGED <<db_ok, lapVars, compVars, champVars, leagueVars, session_results,
                   sessions_view, catalog>>

league_selector(pick) == Selector("league_selector", pick)
tier_select(pick) == Selector("tier_select", pick)
show_competition_selection(pick) == Selector("competition_select", pick)
show_4fun_report(pick) == Selector("4fun_competition_select", pick)
show_drivers_report(pick) == Selector("driver_select", pick)

NextSelectors ==
    \/ StoreCatalogRow
    \/ \E pick \in 0 .. MaxRecords : league_selector(pick)
    \/ \E pick \in 0 .. MaxRecords : tier_select(pick)
    \/ \E pick \in 0 .. MaxRecords : show_competition_selection(pick)
    \/ \E pick \in 0 .. MaxRecords : show_4fun_report(pick)
    \/ \E pick \in 0 .. MaxRecords : show_drivers_report(pick)

SpecSelectors == Init /\ [][NextSelectors]_vars

----------------------------------------------------------------------------
(* Claims about the selectboxes *)

\* The rows of the table a selector lists.
Scope(key) ==
    {r \in catalog :
        \/ key = "league_selector" /\ r.table = "leagues"
        \/ key = "tier_select" /\ r.table = "championships" /\ r.parent = Some(1)
        \/ key = "competition_select" /\ r.table = "competitions" /\ r.parent = Some(1)
        \/ key = "4fun_competition_select" /\ r.table = "competitions" /\ r.parent = NULL
        \/ key = "driver_select" /\ r.table = "drivers"}

\* The record option number index (counted from 0) was built from; NULL for
\* the placeholder.
RecordAt(index) ==
    LET first == Len(selector.options) - Len(selector.listed)
    IN  IF index < first THEN NULL
        ELSE Some(CHOOSE r \in Scope(selector.key) :
                      r.id = selector.listed[index - first + 1])

\* C26: the league, tier and competition selectors start on the most
\* recently started completed item, which is the first completed one of the
\* list, or on the first item when none is completed; the default index lies
\* within the option list and is never the placeholder.
C26_DefaultIsLatestCompleted ==
    (/\ selector.key \in {"league_selector", "tier_select", "competition_select"}
     /\ selector.shown = "selectbox")
    => LET scope == Scope(selector.key)
           d == selector.default_index
           first == Len(selector.options) - Len(selector.listed)
           later(a, b) == /\ a.start_date # NULL
                          /\ b.start_date = NULL \/ Val(a.start_date) > Val(b.start_date)
       IN  /\ d \in 0 .. Len(selector.options) - 1
           /\ selector.options[d + 1] # Placeholder
           /\ RecordAt(d) # NULL
           /\ IF \E r \in scope : r.is_completed = 1
              THEN /\ Val(RecordAt(d)).is_completed = 1
                   /\ \A r \in scope : r.is_completed = 1 => ~later(r, Val(RecordAt(d)))
                   /\ \A j \in first .. d - 1 : Val(RecordAt(j)).is_completed = 0
              ELSE d = first

\* A tier selector that lists a running tier ahead of an older completed
\* one and starts on the completed one.
C26_Witness ==
    /\ selector.key = "tier_select"
    /\ selector.shown = "selectbox"
    /\ Len(selector.listed) = 2
    /\ Val(RecordAt(1)).is_completed = 0
    /\ Val(RecordAt(2)).is_completed = 1
    /\ selector.default_index = 2

\* C27: in every selector, choosing a listed option opens the record that
\* option was built from, also when two records have the same display name.
C27_OptionOpensItsRecord ==
    (/\ selector.key \in {"league_selector", "tier_select", "competition_select",
                          "4fun_competition_select", "driver_select"}
     /\ selector.shown = "selectbox"
     /\ RecordAt(selector.pick) # NULL)
    => selector.opened = Some(Val(RecordAt(selector.pick)).id)

----------------------------------------------------------------------------
(* Connections *)

\* check_database: False without the file; True with the three tables
\* present; False when a statement raises.
check_database ==
    /\ sessions_view' = [q |-> "check_database", ret |-> db_ok]
    /\ connections' \in LeftOpen
    /\ UNCHANGED <<db_ok, lapVars, compVars, champVars, leagueVars, session_results,
                   catalog, selector>>

\* get_championships_list: the standard championships, or [] when the
\* query raised.
get_championships_list ==
    /\ \E listed \in ListOrders("championships_list") :
          selector' = [key |-> "championships_list", shown |-> "list",
                       options |-> <<>>,
                       listed |-> IF db_ok THEN [i \in DOMAIN listed |-> listed[i].id]
                                  ELSE <<>>,
                       default_index |-> 0, pick |-> 0, opened |-> NULL]
    /\ connections' \in LeftOpen
    /\ UNCHANGED <<db_ok, lapVars, compVars, champVars, leagueVars, session_results,
                   sessions_view, catalog>>

NextConnections ==
    \/ StoreSessionResult
    \/ DatabaseBreaks
    \/ DatabaseRestored
    \/ check_database
    \/ get_championships_list
    \/ \E c \in CompetitionIds : get_competition_sessions(c)
    \/ \E s \in SessionIds : get_session_results(s)
    \/ \E pick \in 0 .. MaxRecords : league_selector(pick)

SpecConnections == Init /\ [][NextConnections]_vars

\* C30: every connection a data-access method opens is closed again when
\* the method returns, whether the query succeeded or raised.
C30_NoConnectionLeftOpen == connections = 0

====
